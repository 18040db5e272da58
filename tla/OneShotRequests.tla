--------------------------- MODULE OneShotRequests ---------------------------
(* What a caller of StorageClient is promised, without slots, timers or       *)
(* events (StorageClient.h: "At most ONE upload and ONE download may be in    *)
(* flight at a time", "Callback fires exactly once").  A request is made      *)
(* once; it is then either refused on the spot or open until its single       *)
(* answer.  At most one request of a kind is open.                            *)
EXTENDS FiniteSets

CONSTANTS
    Requests,       \* the calls a caller can make
    KindOf(_)       \* the kind of a request: "upload" or "download"

VARIABLE progress   \* progress[r]: how far request r has come

Stages == {"idle", "open", "answered", "refused"}

OpenRequests == {r \in Requests : progress[r] = "open"}

PromiseInit == progress = [r \in Requests |-> "idle"]

\* The request is taken: nothing of its kind is open.
Open(r) ==
    /\ progress[r] = "idle"
    /\ \A s \in OpenRequests : KindOf(s) # KindOf(r)
    /\ progress' = [progress EXCEPT ![r] = "open"]

\* The request is turned down before the call returns.
Refuse(r) ==
    /\ progress[r] = "idle"
    /\ progress' = [progress EXCEPT ![r] = "refused"]

\* Open requests get their answer: one of them when its event or its timer
\* arrives, all of them when the client is destroyed.
Answer(S) ==
    /\ S # {}
    /\ progress' = [r \in Requests |-> IF r \in S THEN "answered" ELSE progress[r]]

PromiseNext ==
    \/ \E r \in Requests : Open(r) \/ Refuse(r)
    \/ \E S \in SUBSET OpenRequests : Answer(S)

Promise == PromiseInit /\ [][PromiseNext]_progress
==============================================================================
