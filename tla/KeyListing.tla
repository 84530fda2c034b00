----------------------------- MODULE KeyListing -----------------------------
(***************************************************************************)
(* Reading all the access keys of an account (utils/mnw-api-js):           *)
(* RpcProvider.query asks for a list page by page, and each page is a      *)
(* request that sendJsonRpc sends to one node after another until one      *)
(* answers. The nodes reach new blocks in their own time, not all of them  *)
(* know pages, and some answer out of line.                                *)
(*                                                                         *)
(* A key is a positive number, in the order the nodes list keys in; 0      *)
(* stands for a cursor or a block that is not there. A list that was asked *)
(* for without a page or cursor only: any other query is one request.      *)
(***************************************************************************)
EXTENDS Integers, Sequences, FiniteSets

CONSTANTS
    Nodes,
    Providers,   \* the rotator's connections, in order
    Attempts,    \* retryConfig.attempt
    Keys,
    PageSize,    \* ACCESS_KEY_LIST_PAGE_SIZE
    MaxPages,    \* ACCESS_KEY_LIST_MAX_PAGES
    MaxHeight    \* bounds the blocks

ASSUME ListingAssumption ==
    /\ Providers \in Seq(Nodes) /\ Providers # <<>>
    /\ Keys \subseteq Nat \ {0} /\ IsFiniteSet(Keys)
    /\ {Attempts, PageSize, MaxPages, MaxHeight} \subseteq Nat \ {0}

VARIABLES
    blocks,   \* the account's keys in each block so far
    head,     \* the last block each node knows
    kind,     \* what the nodes make of `limit' and `after_key'
    call      \* the list being read

vars == <<blocks, head, kind, call>>

\* Whether a node knows pages, has never heard of them, or loses the cursor.
Kinds == {"pages", "whole", "strays"}

-----------------------------------------------------------------------------
(* The nodes.                                                              *)

NewBlock ==
    /\ Len(blocks) < MaxHeight
    /\ \E S \in SUBSET Keys : blocks' = Append(blocks, S)
    /\ UNCHANGED <<head, kind, call>>

CatchesUp(n) ==
    /\ head[n] < Len(blocks)
    /\ head' = [head EXCEPT ![n] = @ + 1]
    /\ UNCHANGED <<blocks, kind, call>>

\* The keys of S after a cursor: the first PageSize of them, with a cursor when
\* that many are there.
Page(S, after) ==
    LET rest == {k \in S : after < k}
    IN  {p \in [keys : SUBSET rest, last : rest \union {0}] :
            IF Cardinality(rest) < PageSize
            THEN p = [keys |-> rest, last |-> 0]
            ELSE /\ Cardinality(p.keys) = PageSize /\ p.last \in p.keys
                 /\ \A k \in rest : k \in p.keys <=> k <= p.last}

\* getConnection(currentAttempt).
Connection == Providers[(call.attempt % Len(Providers)) + 1]

\* Mutant: later pages are read at the node's last block.
WantedLatest == IF call.at # 0 THEN call.at ELSE head[Connection]

\* The block a request names: that of the first page, else what the caller asked
\* for, else the last one (`finality').
Wanted == IF call.block # 0 THEN call.block
          ELSE IF call.at # 0 THEN call.at ELSE head[Connection]

\* What the node may answer when it has the block. One that strays starts over,
\* sends nothing but a cursor, or leaves the height out.
Replies ==
    LET S == blocks[Wanted]
        whole == [keys |-> S, last |-> 0]
        at(h, ps) == {[height |-> h, keys |-> p.keys, last |-> p.last] : p \in ps}
    IN  IF Wanted > head[Connection] THEN {}
        ELSE CASE kind[Connection] = "pages" -> at(Wanted, Page(S, call.after))
               [] kind[Connection] = "whole" -> at(Wanted, {whole})
               [] OTHER -> at(Wanted, Page(S, 0) \union {[keys |-> {}, last |-> k] : k \in Keys})
                           \union at(0, Page(S, call.after))

-----------------------------------------------------------------------------
(* queryAccessKeyList over sendJsonRpc.                                    *)

\* A list is asked for; the caller may name a block.
Asks(at) ==
    /\ call.pc # "ask" /\ at \in 0..Len(blocks)
    /\ call' = [pc |-> "ask", at |-> at, attempt |-> 0, block |-> 0, after |-> 0, pages |-> <<>>]
    /\ UNCHANGED <<blocks, head, kind>>

Throws == call' = [call EXCEPT !.pc = "failed"] /\ UNCHANGED <<blocks, head, kind>>

\* Mutant: the connections are tried round and round.
AttemptFailsForever ==
    /\ call.pc = "ask"
    /\ call' = [call EXCEPT !.attempt = (@ + 1) % Attempts]
    /\ UNCHANGED <<blocks, head, kind>>

\* No answer, one that is not ok, or a timeout: the next connection is tried.
AttemptFails ==
    /\ call.pc = "ask" /\ call.attempt + 1 < Attempts
    /\ call' = [call EXCEPT !.attempt = @ + 1]
    /\ UNCHANGED <<blocks, head, kind>>

\* Mutant: the pages there are come back when the attempts are used up.
AttemptsEndWithPages ==
    /\ call.pc = "ask" /\ call.attempt + 1 = Attempts /\ call.pages # <<>>
    /\ call' = [call EXCEPT !.pc = "done"]
    /\ UNCHANGED <<blocks, head, kind>>

\* RetriesExceeded.
AttemptsEnd == call.pc = "ask" /\ call.attempt + 1 = Attempts /\ Throws

\* Any other error is final: the node does not have the block, say.
Refused == call.pc = "ask" /\ Throws

\* An answer that has no list of keys.
NoKeys == call.pc = "ask" /\ kind[Connection] = "strays" /\ Throws

\* The block of the list once reply `r' is in.
BlockWith(r) == IF call.block = 0 THEN r.height ELSE call.block

Stuck(r) == r.keys = {} \/ r.last = call.after \/ BlockWith(r) = 0

LastPage(r) ==
    /\ call.pc = "ask" /\ r.last = 0
    /\ call' = [call EXCEPT !.pc = "done", !.block = BlockWith(r),
                            !.pages = Append(@, r.keys)]
    /\ UNCHANGED <<blocks, head, kind>>

\* Mutant: no limit on the pages.
NextPageWithoutEnd(r) ==
    /\ call.pc = "ask" /\ r.last # 0 /\ ~Stuck(r)
    /\ call' = [call EXCEPT !.attempt = 0, !.block = BlockWith(r), !.after = r.last,
                            !.pages = Append(@, r.keys)]
    /\ UNCHANGED <<blocks, head, kind>>

\* Mutant: the cursor is that of the first page.
NextPageSameCursor(r) ==
    /\ call.pc = "ask" /\ r.last # 0 /\ ~Stuck(r) /\ Len(call.pages) + 1 < MaxPages
    /\ call' = [call EXCEPT !.attempt = 0, !.block = BlockWith(r),
                            !.after = IF @ = 0 THEN r.last ELSE @,
                            !.pages = Append(@, r.keys)]
    /\ UNCHANGED <<blocks, head, kind>>

\* The loop goes on with a new request.
NextPage(r) ==
    /\ call.pc = "ask" /\ r.last # 0 /\ ~Stuck(r) /\ Len(call.pages) + 1 < MaxPages
    /\ call' = [call EXCEPT !.attempt = 0, !.block = BlockWith(r), !.after = r.last,
                            !.pages = Append(@, r.keys)]
    /\ UNCHANGED <<blocks, head, kind>>

\* AccessKeyListIncomplete.
Incomplete(r) ==
    /\ call.pc = "ask" /\ r.last # 0 /\ (Stuck(r) \/ Len(call.pages) + 1 = MaxPages)
    /\ Throws

Ends == AttemptFails \/ AttemptsEnd \/ Refused \/ NoKeys
Proceeds == Ends \/ \E r \in Replies : LastPage(r) \/ NextPage(r) \/ Incomplete(r)

-----------------------------------------------------------------------------
NoCall == [pc |-> "idle", at |-> 0, attempt |-> 0, block |-> 0, after |-> 0, pages |-> <<>>]

Init ==
    /\ \E S \in SUBSET Keys : blocks = <<S>>
    /\ head = [n \in Nodes |-> 1]
    /\ kind \in [Nodes -> Kinds]
    /\ call = NoCall

Next ==
    \/ NewBlock \/ \E n \in Nodes : CatchesUp(n)
    \/ \E at \in 0..MaxHeight : Asks(at)
    \/ Proceeds

\* fetch ends with an answer or an error, and the loop runs on.
Spec == Init /\ [][Next]_vars /\ WF_vars(Proceeds)

-----------------------------------------------------------------------------
(* Properties.                                                             *)

Listed == UNION {call.pages[i] : i \in DOMAIN call.pages}

TypeOK ==
    /\ blocks \in Seq(SUBSET Keys)
    /\ head \in [Nodes -> DOMAIN blocks] /\ kind \in [Nodes -> Kinds]
    /\ call \in [pc : {"idle", "ask", "done", "failed"}, at : 0..Len(blocks),
                 attempt : 0..(Attempts - 1), block : 0..Len(blocks), after : Keys \union {0},
                 pages : Seq(SUBSET Keys)]
    /\ Len(call.pages) <= MaxPages

\* What has been read so far is all the account had up to the cursor, in the one
\* block every page is of: whichever nodes answered, and whatever the account's
\* keys have become meanwhile.
OneBlock ==
    call.pc = "ask" /\ call.block # 0 =>
        {k \in blocks[call.block] : k <= call.after} \subseteq Listed
        /\ Listed \subseteq blocks[call.block]

\* "In the shape of one unpaginated answer": no key comes twice, as long as the
\* nodes that take turns agree on what a page is.
ListedOnce ==
    (\A n \in Nodes : kind[n] = "pages") \/ (\A n \in Nodes : kind[n] = "whole") =>
        \A i, j \in DOMAIN call.pages : i # j => call.pages[i] \intersect call.pages[j] = {}

\* Every list that is asked for comes or fails.
ListingEnds == call.pc = "ask" ~> call.pc # "ask"

\* "One consistent view. An incomplete list throws".
Snapshot == INSTANCE KeySnapshot WITH
    status <- call.pc,
    keys <- IF call.pc = "done" THEN Listed ELSE {}
IsASnapshot == Snapshot!Spec
=============================================================================
