-------------------------- MODULE KeyListingProofs --------------------------
(***************************************************************************)
(* Proofs about KeyListing, for any nodes and connections, any keys, page  *)
(* size and limits, and any run of blocks: what comes back is all the keys *)
(* of one block.                                                           *)
(***************************************************************************)
EXTENDS KeyListing, TLAPS

-----------------------------------------------------------------------------
(* The inductive invariant.                                                *)

\* Before the first page has come nothing is read; the loop has a page to go.
Fresh == call.pc = "ask" /\ call.block = 0 => call.pages = <<>> /\ call.after = 0
Bounded == call.pc = "ask" => Len(call.pages) < MaxPages

\* Nodes that page list nothing past the cursor, those that do not need one page.
Ordered ==
    call.pc = "ask" =>
        /\ (\A n \in Nodes : kind[n] = "pages") => \A k \in Listed : k <= call.after
        /\ (\A n \in Nodes : kind[n] = "whole") => call.pages = <<>>

IInv == TypeOK /\ OneBlock /\ ListedOnce /\ Fresh /\ Bounded /\ Ordered

-----------------------------------------------------------------------------
(* Replies.                                                                *)

\* A request goes to one of the nodes.
LEMMA ConnectionIsANode ==
    ASSUME TypeOK
    PROVE  Connection \in Nodes
<1>1. Len(Providers) \in Nat \ {0} /\ call.attempt \in Nat
  BY ListingAssumption DEF TypeOK
<1>2. (call.attempt % Len(Providers)) + 1 \in 1..Len(Providers)
  BY <1>1
<1> QED BY <1>2, ListingAssumption DEF Connection

\* A page holds every key from the cursor it was asked after to its own.
LEMMA PageIsFull ==
    ASSUME NEW S \in SUBSET Keys, NEW after \in Nat, NEW p \in Page(S, after)
    PROVE  /\ p.keys \subseteq S /\ p.last \in Keys \union {0}
           /\ \A k \in p.keys : after < k
           /\ p.last = 0 => {k \in S : after < k} \subseteq p.keys
           /\ p.last # 0 => {k \in S : after < k /\ k <= p.last} = p.keys
<1> DEFINE rest == {k \in S : after < k}
<1>0. /\ p \in [keys : SUBSET rest, last : rest \union {0}]
      /\ IF Cardinality(rest) < PageSize
         THEN p = [keys |-> rest, last |-> 0]
         ELSE /\ Cardinality(p.keys) = PageSize /\ p.last \in p.keys
              /\ \A k \in rest : k \in p.keys <=> k <= p.last
  BY DEF Page
<1>1. CASE Cardinality(rest) < PageSize
  BY <1>0, <1>1
<1>2. CASE ~(Cardinality(rest) < PageSize)
  <2>1. p.last \in p.keys /\ p.keys \subseteq rest
    BY <1>0, <1>2
  <2>2. p.last # 0
    BY <2>1, ListingAssumption
  <2>3. \A k \in rest : k \in p.keys <=> k <= p.last
    BY <1>0, <1>2
  <2> QED BY <2>1, <2>2, <2>3
<1> QED BY <1>1, <1>2

\* What a node may answer, in terms of the block the request is about.
LEMMA ReplyIsAPage ==
    ASSUME TypeOK, call.pc = "ask", NEW r \in Replies
    PROVE  /\ Wanted \in DOMAIN blocks
           /\ r.height \in {0, Wanted} /\ r.last \in Keys \union {0}
           /\ r.keys \subseteq blocks[Wanted]
           /\ r.last = 0 => {k \in blocks[Wanted] : call.after < k} \subseteq r.keys
           /\ r.last # 0 /\ r.keys # {} =>
                 {k \in blocks[Wanted] : call.after < k /\ k <= r.last} \subseteq r.keys
           /\ kind[Connection] = "pages" =>
                 (\A k \in r.keys : call.after < k /\ (r.last # 0 => k <= r.last))
           /\ kind[Connection] = "whole" => r.last = 0
<1> DEFINE S == blocks[Wanted]
<1>c. Connection \in Nodes
  BY ConnectionIsANode
<1>w. Wanted \in DOMAIN blocks
  <2>1. DOMAIN blocks = 1..Len(blocks) /\ Len(blocks) \in Nat
    BY DEF TypeOK
  <2>2. head[Connection] \in DOMAIN blocks
    BY <1>c DEF TypeOK
  <2>3. call.block \in Nat /\ call.at \in Nat
    BY <2>1 DEF TypeOK
  <2>4. Wanted \in Nat \ {0}
    BY <2>1, <2>2, <2>3 DEF Wanted
  <2>5. ~(Wanted > head[Connection])
    BY DEF Replies
  <2> QED BY <2>1, <2>2, <2>4, <2>5
<1>s. S \in SUBSET Keys /\ call.after \in Nat /\ call.after \in Keys \union {0}
  <2>1. blocks[Wanted] \in SUBSET Keys
    BY <1>w DEF TypeOK
  <2>2. call.after \in Keys \union {0}
    BY DEF TypeOK
  <2>3. Keys \union {0} \subseteq Nat
    BY ListingAssumption
  <2> QED BY <2>1, <2>2, <2>3
<1> HIDE DEF S
<1>1. CASE kind[Connection] = "pages"
  <2>1. PICK p \in Page(S, call.after) :
           r = [height |-> Wanted, keys |-> p.keys, last |-> p.last]
    BY <1>1 DEF Replies, S
  <2>2. /\ r.keys \subseteq S /\ r.last \in Keys \union {0}
        /\ \A k \in r.keys : call.after < k
        /\ r.last = 0 => {k \in S : call.after < k} \subseteq r.keys
        /\ r.last # 0 => {k \in S : call.after < k /\ k <= r.last} = r.keys
    BY <1>s, <2>1, PageIsFull
  <2> QED BY <1>1, <1>w, <2>1, <2>2 DEF S
<1>2. CASE kind[Connection] = "whole"
  <2>1. r = [height |-> Wanted, keys |-> S, last |-> 0]
    BY <1>2 DEF Replies, S
  <2> QED BY <1>2, <1>s, <1>w, <2>1 DEF S
<1>3. CASE kind[Connection] = "strays"
  <2>1. \/ \E p \in Page(S, 0) : r = [height |-> Wanted, keys |-> p.keys, last |-> p.last]
        \/ \E k \in Keys : r = [height |-> Wanted, keys |-> {}, last |-> k]
        \/ \E p \in Page(S, call.after) : r = [height |-> 0, keys |-> p.keys, last |-> p.last]
    BY <1>3 DEF Replies, S
  <2>2. ASSUME NEW p \in Page(S, 0), r = [height |-> Wanted, keys |-> p.keys, last |-> p.last]
        PROVE  /\ r.last = 0 => {k \in S : call.after < k} \subseteq r.keys
               /\ r.last # 0 => {k \in S : call.after < k /\ k <= r.last} \subseteq r.keys
               /\ r.keys \subseteq S /\ r.last \in Keys \union {0} /\ r.height = Wanted
    <3>1. /\ p.keys \subseteq S /\ p.last \in Keys \union {0}
          /\ p.last = 0 => {k \in S : 0 < k} \subseteq p.keys
          /\ p.last # 0 => {k \in S : 0 < k /\ k <= p.last} = p.keys
      BY <1>s, PageIsFull
    <3>2. \A k \in S : 0 < k
      BY <1>s, ListingAssumption
    <3> QED BY <2>2, <3>1, <3>2
  <2>3. ASSUME NEW k \in Keys, r = [height |-> Wanted, keys |-> {}, last |-> k]
        PROVE  r.keys = {} /\ r.last \in Keys /\ r.last # 0 /\ r.height = Wanted
    BY <2>3, ListingAssumption
  <2>4. ASSUME NEW p \in Page(S, call.after), r = [height |-> 0, keys |-> p.keys, last |-> p.last]
        PROVE  /\ r.last = 0 => {k \in S : call.after < k} \subseteq r.keys
               /\ r.last # 0 => {k \in S : call.after < k /\ k <= r.last} \subseteq r.keys
               /\ r.keys \subseteq S /\ r.last \in Keys \union {0} /\ r.height = 0
    BY <1>s, <2>4, PageIsFull
  <2> QED BY <1>3, <1>w, <2>1, <2>2, <2>3, <2>4 DEF S
<1> QED BY <1>1, <1>2, <1>3, <1>c DEF TypeOK, Kinds

-----------------------------------------------------------------------------
(* The steps.                                                              *)

\* Nothing has been read.
LEMMA InitHolds == Init => IInv
<1> SUFFICES ASSUME Init PROVE IInv
  OBVIOUS
<1>1. PICK S \in SUBSET Keys : blocks = <<S>>
  BY DEF Init
<1>2. Len(blocks) = 1 /\ DOMAIN blocks = {1} /\ blocks \in Seq(SUBSET Keys)
  BY <1>1
<1>3. call.pages = <<>> /\ call.pc = "idle" /\ Listed = {}
  BY DEF Init, NoCall, Listed
<1>4. TypeOK
  <2>1. 0 \in 0..(Attempts - 1) /\ Len(<<>>) <= MaxPages /\ MaxPages \in Nat
    BY ListingAssumption
  <2> QED BY <1>2, <2>1 DEF Init, TypeOK, NoCall
<1> QED BY <1>3, <1>4 DEF IInv, OneBlock, ListedOnce, Fresh, Bounded, Ordered

\* Blocks pass and nodes catch up without a change to the blocks there are.
LEMMA NodesKeep ==
    ASSUME IInv, NewBlock \/ \E n \in Nodes : CatchesUp(n)
    PROVE  IInv'
<1>1. CASE NewBlock
  <2>1. PICK S \in SUBSET Keys : blocks' = Append(blocks, S) /\ UNCHANGED <<head, kind, call>>
    BY <1>1 DEF NewBlock
  <2>2. /\ blocks' \in Seq(SUBSET Keys) /\ Len(blocks') = Len(blocks) + 1
        /\ \A h \in DOMAIN blocks : blocks'[h] = blocks[h]
        /\ DOMAIN blocks = 1..Len(blocks) /\ DOMAIN blocks' = 1..(Len(blocks) + 1)
        /\ Len(blocks) \in Nat
    BY <2>1 DEF IInv, TypeOK
  <2>3. TypeOK'
    BY <2>1, <2>2 DEF IInv, TypeOK
  <2>4. Listed' = Listed
    BY <2>1 DEF Listed
  <2>5. OneBlock'
    <3>1. call.block # 0 => call.block \in DOMAIN blocks
      BY <2>2 DEF IInv, TypeOK
    <3> QED BY <2>1, <2>2, <2>4, <3>1 DEF IInv, OneBlock
  <2> QED BY <2>1, <2>3, <2>4, <2>5 DEF IInv, ListedOnce, Fresh, Bounded, Ordered
<1>2. CASE \E n \in Nodes : CatchesUp(n)
  <2>1. PICK n \in Nodes : CatchesUp(n)
    BY <1>2
  <2>2. UNCHANGED <<blocks, kind, call>> /\ head' = [head EXCEPT ![n] = @ + 1] /\ head[n] < Len(blocks)
    BY <2>1 DEF CatchesUp
  <2>3. TypeOK'
    BY <2>2 DEF IInv, TypeOK
  <2>4. Listed' = Listed
    BY <2>2 DEF Listed
  <2> QED BY <2>2, <2>3, <2>4 DEF IInv, OneBlock, ListedOnce, Fresh, Bounded, Ordered
<1> QED BY <1>1, <1>2

\* A new list starts with nothing read.
LEMMA AsksKeeps ==
    ASSUME IInv, NEW at, Asks(at)
    PROVE  IInv'
<1>1. /\ call' = [pc |-> "ask", at |-> at, attempt |-> 0, block |-> 0, after |-> 0, pages |-> <<>>]
      /\ UNCHANGED <<blocks, head, kind>> /\ at \in 0..Len(blocks)
  BY DEF Asks
<1>2. call'.pages = <<>> /\ Listed' = {}
  BY <1>1 DEF Listed
<1>3. 0 \in 0..(Attempts - 1) /\ 0 < MaxPages /\ MaxPages \in Nat /\ Len(<<>>) = 0
  BY ListingAssumption
<1>4. TypeOK'
  BY <1>1, <1>3 DEF IInv, TypeOK
<1> QED BY <1>1, <1>2, <1>3, <1>4 DEF IInv, OneBlock, ListedOnce, Fresh, Bounded, Ordered

\* A list that fails is not read on, nor is one whose node is changed.
LEMMA EndsKeep ==
    ASSUME IInv, Ends \/ Throws
    PROVE  IInv'
<1>1. /\ UNCHANGED <<blocks, head, kind>>
      /\ \/ call' = [call EXCEPT !.pc = "failed"]
         \/ call.attempt + 1 < Attempts /\ call' = [call EXCEPT !.attempt = @ + 1]
  BY DEF Ends, AttemptFails, AttemptsEnd, Refused, NoKeys, Throws
<1>2. TypeOK'
  <2>1. Attempts \in Nat \ {0}
    BY ListingAssumption
  <2>2. CASE call' = [call EXCEPT !.pc = "failed"]
    BY <1>1, <2>2 DEF IInv, TypeOK
  <2>3. CASE call.attempt + 1 < Attempts /\ call' = [call EXCEPT !.attempt = @ + 1]
    <3>1. call.attempt + 1 \in 0..(Attempts - 1)
      BY <2>1, <2>3 DEF IInv, TypeOK
    <3> QED BY <1>1, <2>3, <3>1 DEF IInv, TypeOK
  <2> QED BY <1>1, <2>2, <2>3
<1>3. call'.pages = call.pages /\ call'.block = call.block /\ call'.after = call.after
      /\ (call'.pc = "ask" => call.pc = "ask")
  BY <1>1 DEF IInv, TypeOK
<1>4. Listed' = Listed
  BY <1>3 DEF Listed
<1> QED BY <1>1, <1>2, <1>3, <1>4 DEF IInv, OneBlock, ListedOnce, Fresh, Bounded, Ordered

\* A page that comes in adds what lies between its cursor and the one before.
LEMMA PageKeeps ==
    ASSUME IInv, NEW r \in Replies, LastPage(r) \/ NextPage(r)
    PROVE  /\ IInv'
           /\ LastPage(r) => Listed' = blocks[Wanted] /\ Wanted \in DOMAIN blocks
<1> DEFINE b == BlockWith(r)
           S == blocks[Wanted]
<1>0. /\ call.pc = "ask" /\ TypeOK /\ UNCHANGED <<blocks, head, kind>>
      /\ call'.block = b /\ call'.pages = Append(call.pages, r.keys)
      /\ call.pages \in Seq(SUBSET Keys) /\ call.after \in Keys \union {0}
      /\ Len(call.pages) \in Nat /\ Len(call.pages) < MaxPages /\ MaxPages \in Nat
      /\ Len(blocks) \in Nat /\ DOMAIN blocks = 1..Len(blocks) /\ call.block \in 0..Len(blocks)
  <2>1. call.pc = "ask" /\ TypeOK /\ UNCHANGED <<blocks, head, kind>>
    BY DEF IInv, LastPage, NextPage
  <2>2. /\ call.pages \in Seq(SUBSET Keys) /\ call.after \in Keys \union {0}
        /\ Len(call.pages) \in Nat /\ call.block \in 0..Len(blocks)
    BY <2>1 DEF TypeOK
  <2>3. call'.block = b /\ call'.pages = Append(call.pages, r.keys)
    BY <2>1 DEF TypeOK, LastPage, NextPage
  <2>4. Len(call.pages) < MaxPages /\ MaxPages \in Nat
    BY <2>1, ListingAssumption DEF IInv, Bounded
  <2>5. Len(blocks) \in Nat /\ DOMAIN blocks = 1..Len(blocks)
    BY <2>1 DEF TypeOK
  <2> QED BY <2>1, <2>2, <2>3, <2>4, <2>5
<1>k. Keys \subseteq Nat \ {0} /\ Keys \union {0} \subseteq Nat
  BY ListingAssumption
<1>c. Connection \in Nodes
  BY <1>0, ConnectionIsANode
<1>r. /\ Wanted \in DOMAIN blocks
      /\ r.height \in {0, Wanted} /\ r.last \in Keys \union {0}
      /\ r.keys \subseteq S
      /\ r.last = 0 => {k \in S : call.after < k} \subseteq r.keys
      /\ r.last # 0 /\ r.keys # {} => {k \in S : call.after < k /\ k <= r.last} \subseteq r.keys
      /\ kind[Connection] = "pages" => (\A k \in r.keys : call.after < k /\ (r.last # 0 => k <= r.last))
      /\ kind[Connection] = "whole" => r.last = 0
  BY <1>0, ReplyIsAPage
<1>s. S \in SUBSET Keys
  BY <1>0, <1>r DEF TypeOK
<1>n. /\ call.after \in Nat
      /\ \A k \in S : k \in Nat /\ ~(k <= 0) /\ (k <= call.after \/ call.after < k)
  <2>1. call.after \in Nat
    BY <1>0, <1>k
  <2>2. ASSUME NEW k \in S PROVE k \in Nat /\ ~(k <= 0) /\ (k <= call.after \/ call.after < k)
    <3>1. k \in Nat \ {0}
      BY <1>s, <1>k
    <3> QED BY <2>1, <3>1
  <2> QED BY <2>1, <2>2
<1>b. b \in {0, Wanted} /\ (call.block # 0 => b = Wanted)
  BY <1>0, <1>r DEF BlockWith, Wanted
<1>w. call.block # 0 => Wanted = call.block
  BY DEF Wanted
<1>l. Listed' = Listed \union r.keys
  <2>1. DOMAIN call.pages = 1..Len(call.pages) /\ DOMAIN call'.pages = 1..(Len(call.pages) + 1)
        /\ (\A i \in DOMAIN call.pages : call'.pages[i] = call.pages[i])
        /\ call'.pages[Len(call.pages) + 1] = r.keys
    BY <1>0, <1>s, <1>r
  <2> QED BY <1>0, <2>1 DEF Listed
\* What was read before this page.
<1>o. {k \in S : k <= call.after} \subseteq Listed /\ Listed \subseteq S
  <2>1. CASE call.block = 0
    <3>1. call.pages = <<>> /\ call.after = 0 /\ Listed = {}
      BY <1>0, <2>1 DEF IInv, Fresh, Listed
    <3> QED BY <1>n, <3>1
  <2>2. CASE call.block # 0
    BY <1>0, <1>w, <2>2 DEF IInv, OneBlock
  <2> QED BY <2>1, <2>2
<1> HIDE DEF b, S
<1>d. LastPage(r) => Listed' = S
  <2> SUFFICES ASSUME LastPage(r) PROVE Listed' = S
    OBVIOUS
  <2>1. r.last = 0
    BY DEF LastPage
  <2> QED BY <1>l, <1>n, <1>o, <1>r, <2>1
<1>1. TypeOK'
  <2>1. call'.pages \in Seq(SUBSET Keys) /\ Len(call'.pages) <= MaxPages /\ b \in 0..Len(blocks)
    BY <1>0, <1>r, <1>s, <1>b
  <2>2. call' \in [pc : {"idle", "ask", "done", "failed"}, at : 0..Len(blocks),
                   attempt : 0..(Attempts - 1), block : 0..Len(blocks), after : Keys \union {0},
                   pages : Seq(SUBSET Keys)]
    <3>1. 0 \in 0..(Attempts - 1)
      BY ListingAssumption
    <3>2. call'.pages = Append(call.pages, r.keys) /\ call'.block = BlockWith(r)
      BY <1>0 DEF b
    <3>3. CASE LastPage(r)
      BY <1>0, <2>1, <3>2, <3>3 DEF TypeOK, LastPage
    <3>4. CASE NextPage(r)
      BY <1>0, <1>r, <2>1, <3>1, <3>2, <3>4 DEF TypeOK, NextPage
    <3> QED BY <3>3, <3>4
  <2> QED BY <1>0, <2>1, <2>2 DEF TypeOK
<1>2. OneBlock' /\ Fresh' /\ Bounded'
  <2>1. CASE LastPage(r)
    <3>1. call'.pc = "done"
      BY <1>0, <2>1 DEF LastPage, TypeOK
    <3> QED BY <3>1 DEF OneBlock, Fresh, Bounded
  <2>2. CASE NextPage(r)
    <3>1. /\ call'.after = r.last /\ r.last # 0 /\ r.keys # {} /\ b # 0
          /\ Len(call.pages) + 1 < MaxPages
      BY <1>0, <2>2 DEF NextPage, Stuck, TypeOK, b
    <3>2. b = Wanted
      BY <1>b, <3>1
    <3>3. {k \in S : k <= r.last} \subseteq Listed \union r.keys
      BY <1>n, <1>o, <1>r, <3>1
    <3>4. blocks'[call'.block] = S
      BY <1>0, <3>2 DEF S
    <3>5. OneBlock'
      BY <1>l, <1>o, <1>r, <3>1, <3>3, <3>4 DEF OneBlock
    <3>6. Len(call'.pages) < MaxPages
      BY <1>0, <1>r, <1>s, <3>1
    <3> QED BY <1>0, <3>1, <3>5, <3>6 DEF Fresh, Bounded
  <2> QED BY <2>1, <2>2
<1>3. Ordered'
  <2> SUFFICES ASSUME call'.pc = "ask"
               PROVE  /\ (\A n \in Nodes : kind[n] = "pages") => \A k \in Listed' : k <= call'.after
                      /\ (\A n \in Nodes : kind[n] = "whole") => call'.pages = <<>>
    BY <1>0 DEF Ordered
  <2>1. NextPage(r)
    BY <1>0 DEF LastPage, TypeOK
  <2>2. call'.after = r.last /\ r.last # 0
    BY <1>0, <2>1 DEF NextPage, TypeOK
  <2>3. ~(\A n \in Nodes : kind[n] = "whole")
    BY <1>c, <1>r, <2>2
  <2>4. ASSUME \A n \in Nodes : kind[n] = "pages" PROVE \A k \in Listed' : k <= r.last
    <3>1. \A k \in r.keys : call.after < k /\ k <= r.last
      BY <1>c, <1>r, <2>2, <2>4
    <3>2. \A k \in Listed : k <= call.after
      BY <1>0, <2>4 DEF IInv, Ordered
    <3>3. r.keys # {}
      BY <2>1 DEF NextPage, Stuck
    <3>4. r.last \in Nat
      BY <1>k, <1>r
    <3>5. PICK k \in r.keys : k \in Nat /\ call.after < k /\ k <= r.last
      BY <1>n, <1>r, <3>1, <3>3
    <3>6. call.after <= r.last
      BY <1>n, <3>4, <3>5
    <3>7. \A j \in Listed : j \in Nat
      BY <1>n, <1>o
    <3>8. \A j \in Listed : j <= r.last
      BY <1>n, <3>2, <3>4, <3>6, <3>7
    <3> QED BY <1>l, <3>1, <3>8
  <2> QED BY <2>2, <2>3, <2>4
<1>4. ListedOnce'
  <2>0. /\ DOMAIN call.pages = 1..Len(call.pages) /\ DOMAIN call'.pages = 1..(Len(call.pages) + 1)
        /\ \A i \in DOMAIN call.pages : call'.pages[i] = call.pages[i]
        /\ call'.pages[Len(call.pages) + 1] = r.keys
    BY <1>0, <1>s, <1>r
  <2>1. CASE \A n \in Nodes : kind[n] = "pages"
    <3>1. \A k \in r.keys : call.after < k
      BY <1>c, <1>r, <2>1
    <3>2. \A k \in Listed : k <= call.after
      BY <1>0, <2>1 DEF IInv, Ordered
    <3>3. \A i \in DOMAIN call.pages : call.pages[i] \subseteq Listed
      BY DEF Listed
    <3>4. \A k \in Listed : ~(call.after < k)
      BY <1>n, <1>o, <3>2
    <3>5. \A i \in DOMAIN call.pages : call.pages[i] \intersect r.keys = {}
      BY <3>1, <3>3, <3>4
    <3>6. \A i, j \in DOMAIN call.pages : i # j => call.pages[i] \intersect call.pages[j] = {}
      BY <2>1 DEF IInv, ListedOnce
    <3>7. \A i, j \in DOMAIN call'.pages : i # j => call'.pages[i] \intersect call'.pages[j] = {}
      BY <1>0, <2>0, <3>5, <3>6
    <3> QED BY <3>7 DEF ListedOnce
  <2>2. CASE \A n \in Nodes : kind[n] = "whole"
    <3>1. call.pages = <<>>
      BY <1>0, <2>2 DEF IInv, Ordered
    <3>2. DOMAIN call'.pages = {1}
      BY <2>0, <3>1
    <3> QED BY <3>2 DEF ListedOnce
  <2>3. CASE ~(\A n \in Nodes : kind[n] = "pages") /\ ~(\A n \in Nodes : kind[n] = "whole")
    BY <1>0, <2>3 DEF ListedOnce
  <2> QED BY <2>1, <2>2, <2>3
<1> QED BY <1>1, <1>2, <1>3, <1>4, <1>d, <1>r DEF IInv, S

\* Every step keeps the invariant.
LEMMA StepKeeps ==
    ASSUME IInv, [Next]_vars
    PROVE  IInv'
<1>1. CASE NewBlock \/ \E n \in Nodes : CatchesUp(n)
  BY <1>1, NodesKeep
<1>2. CASE \E at \in 0..MaxHeight : Asks(at)
  BY <1>2, AsksKeeps
<1>3. CASE Ends
  BY <1>3, EndsKeep
<1>4. ASSUME NEW r \in Replies, LastPage(r) \/ NextPage(r) \/ Incomplete(r)
      PROVE  IInv'
  BY <1>4, PageKeeps, EndsKeep DEF Incomplete
<1>5. CASE UNCHANGED vars
  <2>1. Listed' = Listed
    BY <1>5 DEF vars, Listed
  <2> QED BY <1>5, <2>1 DEF vars, IInv, TypeOK, OneBlock, ListedOnce, Fresh, Bounded, Ordered
<1> QED BY <1>1, <1>2, <1>3, <1>4, <1>5 DEF Next, Proceeds

-----------------------------------------------------------------------------
(* The theorems.                                                           *)

\* The invariant above holds in every state.
THEOREM Invariance == Spec => []IInv
<1>1. Init => IInv
  BY InitHolds
<1>2. IInv /\ [Next]_vars => IInv'
  BY StepKeeps
<1> QED BY <1>1, <1>2, PTL DEF Spec

\* The loop keeps to its bounds.
THEOREM Typed == Spec => []TypeOK
<1>1. IInv => TypeOK
  BY DEF IInv
<1> QED BY <1>1, Invariance, PTL

\* Every page is of the block of the first, and nothing before the cursor is
\* missed.
THEOREM PagesOfOneBlock == Spec => []OneBlock
<1>1. IInv => OneBlock
  BY DEF IInv
<1> QED BY <1>1, Invariance, PTL

\* No key comes twice from nodes that agree on what a page is.
THEOREM NoKeyTwice == Spec => []ListedOnce
<1>1. IInv => ListedOnce
  BY DEF IInv
<1> QED BY <1>1, Invariance, PTL

-----------------------------------------------------------------------------
(* The listing implements KeySnapshot.                                     *)

\* Nothing has been asked for.
LEMMA InitIsSnapshot == Init => Snapshot!Init
<1> SUFFICES ASSUME Init PROVE Snapshot!Init
  OBVIOUS
<1>1. call.pc = "idle"
  BY DEF Init, NoCall
<1> QED BY <1>1 DEF Init, Snapshot!Init

\* Only a new block, a new list, the last page and an error show; the pages
\* before the last and the nodes' progress do not.
LEMMA StepIsSnapshot ==
    ASSUME IInv, [Next]_vars
    PROVE  [Snapshot!Next]_(Snapshot!vars)
<1> USE DEF Snapshot!Next, Snapshot!vars
<1>1. CASE NewBlock
  <2>1. Listed' = Listed /\ call' = call
    BY <1>1 DEF NewBlock, Listed
  <2>2. Snapshot!NewBlock
    BY <1>1, <2>1 DEF NewBlock, Snapshot!NewBlock
  <2> QED BY <2>2
<1>2. CASE \E n \in Nodes : CatchesUp(n)
  <2>1. call' = call /\ blocks' = blocks
    BY <1>2 DEF CatchesUp
  <2>2. Listed' = Listed
    BY <2>1 DEF Listed
  <2> QED BY <2>1, <2>2
<1>3. CASE \E at \in 0..MaxHeight : Asks(at)
  <2>1. call.pc # "ask" /\ call'.pc = "ask" /\ blocks' = blocks
    BY <1>3 DEF Asks
  <2>2. Snapshot!Asks
    BY <2>1 DEF Snapshot!Asks
  <2> QED BY <2>2
<1>4. ASSUME call.pc = "ask", Throws PROVE Snapshot!Fails
  <2>1. call'.pc = "failed" /\ blocks' = blocks
    BY <1>4 DEF Throws, IInv, TypeOK
  <2> QED BY <1>4, <2>1 DEF Snapshot!Fails
<1>5. CASE Ends
  <2>1. CASE AttemptFails
    <3>1. call.pc = "ask" /\ call'.pc = "ask" /\ blocks' = blocks
      BY <2>1 DEF AttemptFails, IInv, TypeOK
    <3> QED BY <3>1
  <2>2. CASE AttemptsEnd \/ Refused \/ NoKeys
    <3>1. call.pc = "ask" /\ Throws
      BY <2>2 DEF AttemptsEnd, Refused, NoKeys
    <3> QED BY <1>4, <3>1
  <2> QED BY <1>5, <2>1, <2>2 DEF Ends
<1>6. ASSUME NEW r \in Replies, LastPage(r) PROVE Snapshot!Answers
  <2>1. Listed' = blocks[Wanted] /\ Wanted \in DOMAIN blocks
    BY <1>6, PageKeeps
  <2>2. call.pc = "ask" /\ call'.pc = "done" /\ blocks' = blocks
    BY <1>6 DEF LastPage, IInv, TypeOK
  <2> QED BY <2>1, <2>2 DEF Snapshot!Answers
<1>7. ASSUME NEW r \in Replies, NextPage(r) PROVE UNCHANGED Snapshot!vars
  <2>1. call.pc = "ask" /\ call'.pc = "ask" /\ blocks' = blocks
    BY <1>7 DEF NextPage, IInv, TypeOK
  <2> QED BY <2>1
<1>8. ASSUME NEW r \in Replies, Incomplete(r) PROVE Snapshot!Fails
  BY <1>4, <1>8 DEF Incomplete
<1>9. CASE UNCHANGED vars
  <2>1. call' = call /\ blocks' = blocks /\ Listed' = Listed
    BY <1>9 DEF vars, Listed
  <2> QED BY <2>1
<1> QED BY <1>1, <1>2, <1>3, <1>5, <1>6, <1>7, <1>8, <1>9 DEF Next, Proceeds

\* A list that is asked for comes as all the keys of one block or not at all.
THEOREM ImplementsSnapshot == Spec => IsASnapshot
<1>1. Init => Snapshot!Init
  BY InitIsSnapshot
<1>2. IInv /\ [Next]_vars => [Snapshot!Next]_(Snapshot!vars)
  BY StepIsSnapshot
<1> QED BY <1>1, <1>2, Invariance, PTL DEF Spec, IsASnapshot, Snapshot!Spec
=============================================================================
