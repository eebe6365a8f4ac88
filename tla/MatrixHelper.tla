---------------------------- MODULE MatrixHelper ----------------------------
(***************************************************************************)
(* The matrix helper: requests of gateways over a Unix socket, one mutex   *)
(* for all that touches the matrix, and helper processes that are stopped  *)
(* and started while requests wait.                                        *)
(***************************************************************************)
EXTENDS Naturals, FiniteSets

CONSTANTS
  Names, Crosspoints,  \* requests, by what they ask for
  Helpers,    \* processes started on the same socket path, one after the other
  None

Requests == Names \cup Crosspoints

HelperAssumption ==
  /\ Names \cap Crosspoints = {}
  /\ None \notin Helpers

VARIABLES
  request,   \* "new", "waiting", "names", "refused", "failed"
  handler,   \* its handler: "none", "queued", "locked", "gone"
  at,        \* the process that accepted it
  process,   \* "new", "preparing", "serving", "closing", "exited", "killed"
  path       \* the process that bound the socket path, or None

helper == <<request, handler, at, process, path>>

HelperInit ==
  /\ request = [r \in Requests |-> "new"] /\ handler = [r \in Requests |-> "none"]
  /\ at = [r \in Requests |-> None]
  /\ process = [h \in Helpers |-> "new"] /\ path = None

Holders(h) == {r \in Requests : at[r] = h /\ handler[r] = "locked"}
Connected == {r \in Names : handler[r] = "locked"}

-----------------------------------------------------------------------------
\* Client.post, whose answer counts only while somebody waits for it.
Resolve(r, answer) ==
  request' = [request EXCEPT ![r] = IF @ = "waiting" THEN answer ELSE @]

Post(r) ==
  /\ request[r] = "new"
  /\ IF path = None \/ process[path] = "killed"
       THEN request' = [request EXCEPT ![r] = "failed"] /\ UNCHANGED <<at, handler>>
       ELSE /\ request' = [request EXCEPT ![r] = "waiting"]
            /\ at' = [at EXCEPT ![r] = path]
            /\ handler' = [handler EXCEPT ![r] = "queued"]
  /\ UNCHANGED <<process, path>>

\* The request times out or is cancelled; its handler does not look at the context.
GiveUp(r) ==
  /\ request[r] = "waiting"
  /\ request' = [request EXCEPT ![r] = "failed"]
  /\ UNCHANGED <<handler, at, process, path>>

\* handleNames and handleCrosspoint up to the lock: any request may be invalid, and an
\* invalid one never takes it.
Reject(r) ==
  /\ handler[r] = "queued"
  /\ handler' = [handler EXCEPT ![r] = "gone"] /\ Resolve(r, "refused")
  /\ UNCHANGED <<at, process, path>>

LockNothing(r) ==
  /\ handler[r] = "queued"
  /\ handler' = [handler EXCEPT ![r] = "locked"]
  /\ UNCHANGED <<request, at, process, path>>

Lock(r) ==
  /\ handler[r] = "queued" /\ Holders(at[r]) = {}
  /\ handler' = [handler EXCEPT ![r] = "locked"]
  /\ UNCHANGED <<request, at, process, path>>

\* The fetch ends, well or with an error, if it ends.
UnlockNames(r) ==
  /\ r \in Names /\ handler[r] = "locked"
  /\ handler' = [handler EXCEPT ![r] = "gone"]
  /\ Resolve(r, "names") \/ Resolve(r, "refused")
  /\ UNCHANGED <<at, process, path>>

UnlockAwaited(r) ==
  /\ r \in Crosspoints /\ handler[r] = "locked" /\ request[r] = "waiting"
  /\ handler' = [handler EXCEPT ![r] = "gone"]
  /\ Resolve(r, "refused") /\ UNCHANGED <<at, process, path>>

\* A crosspoint is refused without the matrix being asked.
UnlockCrosspoint(r) ==
  /\ r \in Crosspoints /\ handler[r] = "locked"
  /\ handler' = [handler EXCEPT ![r] = "gone"]
  /\ Resolve(r, "refused") /\ UNCHANGED <<at, process, path>>

-----------------------------------------------------------------------------
\* systemd starts a process when no other is left.
Alone(h) == \A g \in Helpers \ {h} : process[g] \in {"new", "exited", "killed"}

PrepareNothing(h) ==
  /\ process[h] = "new" /\ Alone(h)
  /\ process' = [process EXCEPT ![h] = "preparing"] /\ UNCHANGED path
  /\ UNCHANGED <<request, handler, at>>

\* prepareSocket removes whatever socket it finds.
Prepare(h) ==
  /\ process[h] = "new" /\ Alone(h)
  /\ process' = [process EXCEPT ![h] = "preparing"] /\ path' = None
  /\ UNCHANGED <<request, handler, at>>

\* Listen fails when the path exists.
Listen(h) ==
  /\ process[h] = "preparing"
  /\ IF path = None
       THEN path' = h /\ process' = [process EXCEPT ![h] = "serving"]
       ELSE process' = [process EXCEPT ![h] = "exited"] /\ UNCHANGED path
  /\ UNCHANGED <<request, handler, at>>

\* The listener is closed, which removes the path, on a signal or when accepting fails;
\* the handlers run on.
Close(h) ==
  /\ process[h] = "serving"
  /\ process' = [process EXCEPT ![h] = "closing"] /\ path' = None
  /\ UNCHANGED <<request, handler, at>>

CutClientsOnly(h, end) ==
  /\ process' = [process EXCEPT ![h] = end]
  /\ request' = [r \in Requests |->
       IF at[r] = h /\ request[r] = "waiting" THEN "failed" ELSE request[r]]
  /\ UNCHANGED <<handler, at>>

\* The exit of the process breaks the connections of the handlers still running.
Cut(h, end) ==
  LET cut == {r \in Requests : at[r] = h /\ handler[r] \in {"queued", "locked"}} IN
    /\ process' = [process EXCEPT ![h] = end]
    /\ handler' = [r \in Requests |-> IF r \in cut THEN "gone" ELSE handler[r]]
    /\ request' = [r \in Requests |->
         IF r \in cut /\ request[r] = "waiting" THEN "failed" ELSE request[r]]
    /\ UNCHANGED at

\* Shutdown waits for them for two seconds at most, then the path is removed once more.
Exit(h) == process[h] = "closing" /\ path' = None /\ Cut(h, "exited")

\* A killed process leaves the path behind.
Crash(h) ==
  process[h] \in {"preparing", "serving", "closing"} /\ UNCHANGED path /\ Cut(h, "killed")

HelperNext ==
  \/ \E r \in Requests : Post(r) \/ GiveUp(r) \/ Reject(r) \/ Lock(r)
  \/ \E r \in Requests : UnlockNames(r) \/ UnlockCrosspoint(r)
  \/ \E h \in Helpers : Prepare(h) \/ Listen(h) \/ Close(h) \/ Exit(h) \/ Crash(h)

\* The mutex starves nobody, handlers run, a process that is starting or stopping gets
\* there.  That a fetch ends is not assumed: nothing bounds it (MatrixSession!Ends).
HelperFairness ==
  /\ \A r \in Requests : SF_helper(Lock(r)) /\ WF_helper(UnlockCrosspoint(r))
  /\ \A h \in Helpers : WF_helper(Listen(h)) /\ WF_helper(Exit(h))
HelperSpec == HelperInit /\ [][HelperNext]_helper /\ HelperFairness

-----------------------------------------------------------------------------
HelperTypeOK ==
  /\ \A r \in Requests :
       /\ request[r] \in {"new", "waiting", "names", "refused", "failed"}
       /\ handler[r] \in {"none", "queued", "locked", "gone"} /\ at[r] \in Helpers \cup {None}
       /\ handler[r] \in {"queued", "locked"} => process[at[r]] \in {"serving", "closing"}
  /\ path \in Helpers \cup {None}

\* README.md:51: the helper serializes matrix requests.  At most one connection to the
\* matrix is open, also when the one who asked for it has gone, and across a restart.
OneConnection == Cardinality(Connected) <= 1

\* A helper that is started comes to serve, unless it is killed, whatever its predecessor
\* left at the path (prepareSocket).
Starts == [][\A h \in Helpers : process[h] = "preparing" => process'[h] # "exited"]_helper

\* Every request is settled without its own timeout having to help, unless a fetch of the
\* same process goes on for ever with the mutex: neither an abandoned request nor a helper
\* that stops or is killed keeps another one waiting.
HeldUp(r) == \E s \in Names : <>[](handler[s] = "locked" /\ at[s] = at[r])
Settles == \A r \in Requests : (request[r] = "waiting" ~> request[r] # "waiting") \/ HeldUp(r)
=============================================================================
