-------------------------- MODULE ProviderPatches ---------------------------
(***************************************************************************)
(* Reversible patches of provider clients (integrations/providers.py) and  *)
(* the cleanups of the session that owns them (chaos/session.py).  A       *)
(* method of a client is genuine (0) or the wrapper of a session (its      *)
(* number); own are the methods that are attributes of the instance.       *)
(* A surface is the list of the paths one patch function walks; two        *)
(* clients may share a resource, so surfaces may overlap.                  *)
(***************************************************************************)
EXTENDS ToolRun

CONSTANTS
    Methods,        \* the methods of all clients
    Surfaces,       \* sequences of methods
    MaxPatches,     \* bound on the patches
    MaxSessions     \* bound on the sessions, one after the other

\* The paths of a surface are different methods.
ASSUME PatchAssumption ==
    /\ Surfaces \subseteq Seq(Methods)
    /\ \A s \in Surfaces : \A i, k \in DOMAIN s : s[i] = s[k] => i = k

\* One entry of a handle, at the place of its path in the surface: install
\* remembers what the instance itself had.
Original(methods, own, m) == [method |-> m, existed |-> m \in own, value |-> methods[m]]

\* close(): the last installed first, up to the first that refuses (a method
\* that cannot be set, or an attribute that is not there to delete).
Undoable(own, entry) == entry.method # job.refusing /\ (entry.existed \/ entry.method \in own)
Close(client, originals) ==
    LET stuck == {i \in DOMAIN originals : ~Undoable(client.own, originals[i])}
        undone == {i \in DOMAIN originals : \A k \in stuck : i > k}
        back(m) == {i \in undone : originals[i].method = m}
        Oldest(m) == CHOOSE i \in back(m) : \A k \in back(m) : i <= k
    IN  [methods |-> [m \in Methods |-> IF back(m) = {} THEN client.methods[m]
                                        ELSE originals[Oldest(m)].value],
         own |-> {m \in Methods : IF back(m) = {} THEN m \in client.own
                                  ELSE originals[Oldest(m)].existed},
         raised |-> stuck # {}]

Client == [methods |-> run.methods, own |-> run.own]

\* Mutation of Refused: an already patched method is patched again.
RefusedNever(m) == m = job.refusing

\* A method that is already a wrapper is not wrapped again.
Refused(m) == run.methods[m] # 0 \/ m = job.refusing

\* The paths that resolve, and those of them that are walked before one that
\* cannot be patched.
Present(surface) == {i \in DOMAIN surface : surface[i] \in job.present}
RefusedAt(surface) == {i \in Present(surface) : Refused(surface[i])}
Installed(surface) == {i \in Present(surface) : \A k \in RefusedAt(surface) : i < k}

\* Setting the attribute of a method that refuses it fails after it was noted.
Noted(surface) ==
    Installed(surface) \union
        {i \in RefusedAt(surface) : run.methods[surface[i]] = 0 /\ \A k \in RefusedAt(surface) : i <= k}

PatchInit ==
    /\ job \in [tool : {"patch"}, present : SUBSET Methods, own : SUBSET Methods,
                refusing : Methods \union {NoValue}]
    /\ job.own \subseteq job.present
    /\ run = [session |-> 0, phase |-> "none", methods |-> [m \in Methods |-> 0], own |-> job.own,
              handles |-> <<>>, cleanups |-> <<>>, stuck |-> FALSE]

Patching(phases) == job.tool = "patch" /\ run.phase \in phases

EnterSession ==
    /\ Patching({"none"}) /\ run.session < MaxSessions
    /\ run' = [run EXCEPT !.session = @ + 1, !.phase = "open", !.cleanups = <<>>]
    /\ UNCHANGED job

\* patch_openai(), patch_anthropic(), patch_google(): all paths, or none and
\* an exception.
PatchClient(surface) ==
    LET originals == [i \in Noted(surface) |-> Original(run.methods, run.own, surface[i])]
        wrapped == {surface[i] : i \in Installed(surface)}
        after == [methods |-> [m \in Methods |-> IF m \in wrapped THEN run.session ELSE run.methods[m]],
                  own |-> run.own \union wrapped]
        back == Close(after, originals)
    IN  /\ Patching({"open"}) /\ Len(run.handles) < MaxPatches
        /\ run' = IF Present(surface) # {} /\ RefusedAt(surface) = {}
                  THEN [run EXCEPT !.methods = after.methods, !.own = after.own,
                                   !.handles = Append(@, originals),
                                   !.cleanups = Append(@, Len(run.handles) + 1)]
                  ELSE [run EXCEPT !.methods = back.methods, !.own = back.own,
                                   !.stuck = @ \/ back.raised]
        /\ UNCHANGED job

\* ProviderPatch.close() by the application, any time and any number of times;
\* a handle that was undone to the end keeps nothing to undo.
CloseHandle(h) ==
    LET back == Close(Client, run.handles[h])
    IN  /\ Patching({"none", "open", "exiting"})
        /\ h \in DOMAIN run.handles /\ run.handles[h] # <<>>
        /\ run' = [run EXCEPT !.methods = back.methods, !.own = back.own,
                              !.handles[h] = IF back.raised THEN @ ELSE <<>>,
                              !.stuck = @ \/ back.raised]
        /\ UNCHANGED job

\* __exit__: the cleanups from the last to the first; one that raises leaves
\* the others undone, and the session is closed all the same.
ExitCleanup ==
    LET h == run.cleanups[Len(run.cleanups)]
        back == Close(Client, run.handles[h])
    IN  /\ Patching({"open", "exiting"}) /\ run.cleanups # <<>>
        /\ run' = [run EXCEPT !.methods = back.methods, !.own = back.own,
                              !.handles[h] = IF back.raised THEN @ ELSE <<>>,
                              !.cleanups = SubSeq(@, 1, Len(@) - 1),
                              !.phase = IF back.raised THEN "none" ELSE "exiting",
                              !.stuck = @ \/ back.raised]
        /\ UNCHANGED job
ExitSession ==
    /\ Patching({"open", "exiting"}) /\ run.cleanups = <<>>
    /\ run' = [run EXCEPT !.phase = "none"] /\ UNCHANGED job

PatchNext ==
    \/ EnterSession \/ ExitCleanup \/ ExitSession
    \/ \E s \in Surfaces : PatchClient(s)
    \/ \E h \in 1..MaxPatches : CloseHandle(h)

-----------------------------------------------------------------------------
\* However patches are made, closed early, closed again, rejected half way or
\* left to the session: every wrapper in place belongs to the open session and
\* to exactly one handle, and without one a client is as it was, down to what
\* is an attribute of the instance.  A method that cannot be set breaks the
\* undoing itself (stuck), and only then does a wrapper stay behind.
PatchesRestored ==
    (job.tool = "patch" /\ ~run.stuck) =>
        /\ \A m \in Methods :
              LET holders == {h \in DOMAIN run.handles : \E i \in DOMAIN run.handles[h] :
                                  run.handles[h][i].method = m}
              IN  IF run.methods[m] = 0 THEN holders = {} /\ (m \in run.own <=> m \in job.own)
                  ELSE run.phase # "none" /\ run.methods[m] = run.session /\ Cardinality(holders) = 1
        /\ run.phase = "none" => run.methods = [m \in Methods |-> 0] /\ run.own = job.own
=============================================================================
