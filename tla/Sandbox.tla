--------------------------------- MODULE Sandbox ---------------------------------
(***************************************************************************)
(* One CodeActExecutor.run of sandbox/executor.py next to the processes it *)
(* starts: the script, and at most one helper process that the script      *)
(* leaves behind.  The script may end or hang, and the timeout may strike  *)
(* at any moment of the wait, also when the script has just ended.         *)
(*                                                                         *)
(* A definition D_Something is a faulty variant of D.  Nothing uses it; put *)
(* in the place of D it shows that a property can be broken by a bug.      *)
(***************************************************************************)
EXTENDS Naturals

CONSTANT None   \* no helper process

VARIABLES
    requested,   \* config.backend; never changes
    backend,     \* what select_backend made of it; never changes
    pc,          \* where run is; "returned" and "raised" end it
    dir,         \* whether the working directory of the run exists
    child,       \* the process started by Popen
    helper,      \* a process the child started
    forked,      \* history: whether there ever was a helper
    spoiled,     \* whether something in the directory defies its removal
    timedOut, error   \* as in the result

vars == <<requested, backend, pc, dir, child, helper, forked, spoiled, timedOut, error>>

\* A helper is in the process group of the child or has left it, and keeps the
\* output pipe open or has closed it.
Helper == [inGroup : BOOLEAN, holdsPipe : BOOLEAN]

TypeOK ==
    /\ requested \in {"subprocess", "podman", "cgroup"}
    /\ backend \in {"subprocess", "podman", "cgroup"}
    /\ pc \in {"begin", "write", "spawn", "wait", "kill", "drain", "cleanup",
               "returned", "raised"}
    /\ dir \in BOOLEAN
    /\ child \in {"none", "running", "ended", "killed"}
    /\ helper \in {None} \cup Helper
    /\ {forked, spoiled, timedOut, error} \subseteq BOOLEAN

Selectable_AnyTool(r) == {"subprocess", "bwrap", r}

\* The backends select_backend may choose, depending on the host.
Selectable(r) == {"subprocess", r}

Init ==
    /\ requested \in {"subprocess", "podman", "cgroup"}
    /\ backend \in Selectable(requested)
    /\ pc = "begin"
    /\ dir = FALSE
    /\ child = "none"
    /\ helper = None
    /\ forked = FALSE
    /\ spoiled = FALSE
    /\ timedOut = FALSE
    /\ error = FALSE

Goto(p) == pc' = p

World == <<requested, backend, helper, forked, spoiled>>

\* run: podman gets the code on its standard input; everything else, also
\* "cgroup", runs a script in a directory of its own.
Begin ==
    /\ pc = "begin"
    /\ \/ backend = "podman" /\ Goto("spawn") /\ UNCHANGED dir
       \/ backend # "podman" /\ Goto("write") /\ dir' = TRUE
       \/ backend # "podman" /\ Goto("raised") /\ UNCHANGED dir
    /\ UNCHANGED <<World, child, timedOut, error>>

\* Writing main.py; what it raises leaves run, which has no `finally` here.
WriteScript ==
    /\ pc = "write"
    /\ Goto("spawn") \/ Goto("raised")
    /\ UNCHANGED <<World, dir, child, timedOut, error>>

Spawn_SkipsCleanup ==
    /\ pc = "spawn"
    /\ \/ Goto("wait") /\ child' = "running" /\ UNCHANGED error
       \/ Goto("returned") /\ error' = TRUE /\ UNCHANGED child
    /\ UNCHANGED <<World, dir, timedOut>>

\* subprocess.Popen; what it raises becomes the error of the result.
Spawn ==
    /\ pc = "spawn"
    /\ \/ Goto("wait") /\ child' = "running" /\ UNCHANGED error
       \/ Goto("cleanup") /\ error' = TRUE /\ UNCHANGED child
    /\ UNCHANGED <<World, dir, timedOut>>

\* communicate returns when the child ended and no process has the pipe open.
Drained == child # "running" /\ (helper # None => ~ helper.holdsPipe)

\* communicate: the output, or an error for output that cannot be decoded.
Collect(from) ==
    /\ pc = from
    /\ Drained
    /\ error' \in BOOLEAN
    /\ Goto("cleanup")
    /\ UNCHANGED <<World, dir, child, timedOut>>

\* communicate raises at once for code that cannot be encoded, and podman runs
\* on; a script with such code is never started (WriteScript).  Of the input of run
\* the same is true on both back ends, but no caller gives it any.
EncodeFails ==
    /\ pc = "wait"
    /\ backend = "podman"
    /\ error' = TRUE
    /\ Goto("cleanup")
    /\ UNCHANGED <<World, dir, child, timedOut>>

\* subprocess.TimeoutExpired
Timeout ==
    /\ pc = "wait"
    /\ timedOut' = TRUE
    /\ Goto("kill")
    /\ UNCHANGED <<World, dir, child, error>>

Kill_ChildOnly ==
    /\ pc = "kill"
    /\ child' = IF child = "running" THEN "killed" ELSE child
    /\ Goto("drain")
    /\ UNCHANGED <<World, dir, timedOut, error>>

Kill_Nobody ==
    /\ pc = "kill"
    /\ Goto("drain")
    /\ UNCHANGED <<World, child, dir, timedOut, error>>

\* _kill sends SIGKILL to the group of the child; of podman only the client dies.
Kill ==
    /\ pc = "kill"
    /\ child' = IF child = "running" THEN "killed" ELSE child
    /\ helper' = IF helper # None /\ backend # "podman" /\ helper.inGroup THEN None ELSE helper
    /\ Goto("drain")
    /\ UNCHANGED <<requested, backend, forked, spoiled, dir, timedOut, error>>

\* _cleanup_dir (podman has no directory): rmtree gives up silently if a helper still
\* writes there, or at something it cannot remove.
Cleanup ==
    /\ pc = "cleanup"
    /\ dir' = FALSE \/ ((helper # None \/ spoiled) /\ UNCHANGED dir)
    /\ Goto("returned")
    /\ UNCHANGED <<World, child, timedOut, error>>

Executor ==
    Begin \/ WriteScript \/ Spawn \/ EncodeFails \/ Collect("wait") \/ Collect("drain")
    \/ Timeout \/ Kill \/ Cleanup

Idle == <<requested, backend, pc, dir, timedOut, error>>

\* The script ends by itself, by an exception or by a resource limit.
ChildEnds ==
    /\ child = "running"
    /\ child' = "ended"
    /\ UNCHANGED <<Idle, helper, forked, spoiled>>

\* The script starts another process.
ChildForks ==
    /\ child = "running"
    /\ ~ forked
    /\ helper' \in Helper
    /\ forked' = TRUE
    /\ UNCHANGED <<Idle, child, spoiled>>

\* The script or its helper makes what rmtree cannot remove: a directory with a file
\* in it and without the right to write there.
ScriptSpoils ==
    /\ dir
    /\ child = "running" \/ helper # None
    /\ ~ spoiled
    /\ spoiled' = TRUE
    /\ UNCHANGED <<Idle, child, helper, forked>>

HelperEnds ==
    /\ helper # None
    /\ helper' = None
    /\ UNCHANGED <<Idle, child, forked, spoiled>>

Next == Executor \/ ChildEnds \/ ChildForks \/ ScriptSpoils \/ HelperEnds

\* run goes on while it can, and a wait with a timeout ends; nothing is assumed
\* of the script and its helper.
Spec == Init /\ [][Next]_vars /\ WF_vars(Executor)

----------------------------------------------------------------------------
\* Whenever run returns its child is dead (of podman, unless an error is
\* reported), and after a timeout so is the whole process group of the script.
NothingRunsOn ==
    pc = "returned" =>
        /\ child = "running" => backend = "podman" /\ error /\ ~ timedOut
        /\ timedOut /\ backend # "podman" /\ helper # None => ~ helper.inGroup

\* A run that is over, by whichever path, leaves its working directory behind only
\* if it raised before there was a process, or if the process had a hand in it: it
\* started a helper or made what cannot be removed.
WorkdirIsRemoved ==
    /\ pc = "returned" /\ dir => child # "none" /\ (forked \/ spoiled)
    /\ pc = "raised" /\ dir => child = "none"

\* run comes back even if the script hangs; only a helper that keeps the output
\* pipe open for ever, out of the reach of the kill, can hold it.
OutOfReach ==
    /\ helper # None
    /\ helper.holdsPipe
    /\ backend # "podman" => ~ helper.inGroup
Returns == <>(pc \in {"returned", "raised"}) \/ <>[]OutOfReach

=============================================================================
