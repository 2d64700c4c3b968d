----------------------------- MODULE ControlPlane ----------------------------
(***************************************************************************)
(* Startup, the switches and the observer of async_input.c.                *)
(*  - The patch thread waits for the app files directory, for libil2cpp    *)
(*    and for the IL2CPP runtime, installs the method hooks and only then  *)
(*    lets the requested state become the active one.                      *)
(*  - Callers of the control API throw the persisted switches under        *)
(*    g_control_lock; a change of the active state is told to the raw      *)
(*    observer with the producer epoch, still under that lock.             *)
(*  - A registrar replaces the observer under g_raw_observer_lock and      *)
(*    tells it the state it found there, after the lock.                   *)
(*  - The game loads and initialises IL2CPP at its own pace; the process   *)
(*    may die at any step and start again from the files.                  *)
(*                                                                         *)
(* A switch file is absent, empty (truncated and not yet written) or holds *)
(* a value.  What an active runtime does is in modules Capture and         *)
(* ClockBridge.  Observers here do not call the control API back.          *)
(***************************************************************************)
EXTENDS Naturals, FiniteSets

CONSTANTS Callers,        \* threads that call the control API
          Others,         \* the switches besides the master switch
          DefaultOn,      \* the switches whose missing file means 1
          Hooks, Optional,\* the method hooks, and those that may be missing
          Observers,      \* raw observers a client may register
          None,           \* no observer, no thread
          MaxCalls,       \* bound: control calls in all
          MaxRegisters,   \* bound: registrations in all
          MaxDeaths       \* bound: times the process dies

Switches == {"enabled"} \cup Others
Threads == Callers \cup {"patch"}

ASSUME ControlPlaneAssumption ==
    /\ "enabled" \notin Others /\ DefaultOn \subseteq Others
    /\ Optional \subseteq Hooks /\ IsFiniteSet(Hooks)
    /\ None \notin Observers \cup Threads
    /\ "patch" \notin Callers /\ "registrar" \notin Callers
    /\ {MaxCalls, MaxRegisters, MaxDeaths} \subseteq Nat

VARIABLES
    disk,        \* the switch files: "absent", "empty", "0" or "1"
    paths,       \* the paths of the switch files are joined
    files,       \* g_app_files_state.status: "unset", "ready" or "failed"
    il2cpp,      \* the game: "none", "loaded", "starting", "ready", "classes"
    stateHooked, \* g_il2cpp_state_hooks_installed
    hookedInit,  \* the running il2cpp_init was entered through its hook
    initDone,    \* g_il2cpp_init_completed
    patch,       \* where the patch thread is
    installed,   \* the method hooks in place
    tried, ok,   \* the method hooks tried, and whether all went well
    hooksReady,  \* g_hooks_installed
    lock,        \* who holds g_control_lock
    at, call,    \* where a thread is in a control call, and its call
    value,       \* g_requested_enabled and the other switches in memory
    active,      \* g_enabled
    observer,    \* g_raw_observer
    epoch,       \* g_raw_observer_producer_epoch
    letter,      \* a callback a thread is about to make
    told,        \* per observer, the newest epoch it heard and what it said
    budget,      \* [calls, registers, deaths] left
    wanted,      \* history: what the user asked for last
    unsaved      \* history: that did not reach the file

startup == <<paths, files, il2cpp, stateHooked, hookedInit, initDone, patch,
             installed, tried, ok, hooksReady>>
control == <<lock, at, call, value, active>>
watching == <<observer, epoch, letter, told>>
history == <<wanted, unsaved>>
vars == <<disk, startup, control, watching, budget, history>>

NoLetter == [to |-> None, epoch |-> 0, says |-> FALSE]
Unheard == [epoch |-> 0, says |-> FALSE]
NoCall == [switch |-> "enabled", on |-> FALSE]
Spend(what) == /\ budget[what] > 0
               /\ budget' = [budget EXCEPT ![what] = @ - 1]

Idle == [t \in Threads |-> "idle"]
NoCalls == [t \in Threads |-> NoCall]
NoLetters == [t \in Threads \cup {"registrar"} |-> NoLetter]
Defaults == [s \in Switches |-> s \in DefaultOn]

Init ==
    /\ disk = [s \in Switches |-> "absent"]
    /\ paths = FALSE /\ files = "unset" /\ il2cpp = "none"
    /\ stateHooked = FALSE /\ hookedInit = FALSE /\ initDone = FALSE
    /\ patch = "files" /\ installed = {} /\ tried = {} /\ ok = TRUE
    /\ hooksReady = FALSE
    /\ lock = None /\ at = Idle /\ call = NoCalls
    /\ value = Defaults /\ active = FALSE
    /\ observer = None /\ epoch = 1 /\ letter = NoLetters
    /\ told = [o \in Observers |-> Unheard]
    /\ budget = [calls |-> MaxCalls, registers |-> MaxRegisters,
                 deaths |-> MaxDeaths]
    /\ wanted = Defaults
    /\ unsaved = [s \in Switches |-> FALSE]

\* The process dies and starts again with fresh statics; the files are left.
Die ==
    /\ Spend("deaths")
    /\ paths' = FALSE /\ files' = "unset" /\ il2cpp' = "none"
    /\ stateHooked' = FALSE /\ hookedInit' = FALSE /\ initDone' = FALSE
    /\ patch' = "files" /\ installed' = {} /\ tried' = {} /\ ok' = TRUE
    /\ hooksReady' = FALSE
    /\ lock' = None /\ at' = Idle /\ call' = NoCalls
    /\ value' = Defaults /\ active' = FALSE
    /\ observer' = None /\ epoch' = 1 /\ letter' = NoLetters
    /\ told' = [o \in Observers |-> Unheard]
    /\ UNCHANGED <<disk, history>>

-----------------------------------------------------------------------------
(* onCreate configures the files directory; the patch thread waits for it. *)

JoinPaths ==
    /\ files = "unset" /\ ~paths
    /\ paths' = TRUE
    /\ UNCHANGED <<disk, files, il2cpp, stateHooked, hookedInit, initDone, patch,
                   installed, tried, ok, hooksReady, control, watching, budget, history>>

\* The directory is not the app's own, or the handle provider is not written.
SettleFiles(status) ==
    /\ files = "unset" /\ (status = "ready" => paths)
    /\ files' = status
    /\ UNCHANGED <<disk, paths, il2cpp, stateHooked, hookedInit, initDone, patch,
                   installed, tried, ok, hooksReady, control, watching, budget, history>>

(* The game loads the library, enters il2cpp_init, returns, loads classes. *)
Advance == [none |-> "loaded", loaded |-> "starting", starting |-> "ready",
            ready |-> "classes"]
GameAdvances ==
    /\ il2cpp \in DOMAIN Advance
    /\ il2cpp' = Advance[il2cpp]
    /\ hookedInit' = IF il2cpp = "loaded" THEN stateHooked ELSE hookedInit
    /\ initDone' = (initDone \/ (il2cpp = "starting" /\ hookedInit))
    /\ UNCHANGED <<disk, paths, files, stateHooked, patch, installed, tried, ok,
                   hooksReady, control, watching, budget, history>>

-----------------------------------------------------------------------------
(* patch_thread_main                                                       *)

Patch(from, to) ==
    /\ patch = from /\ patch' = to
    /\ UNCHANGED <<disk, paths, files, il2cpp, hookedInit, initDone, control,
                   watching, budget, history>>
Unpatched == UNCHANGED <<stateHooked, installed, tried, ok, hooksReady>>

\* ado_app_files_wait
FilesSettled ==
    \/ files = "ready" /\ Patch("files", "library") /\ Unpatched
    \/ files = "failed" /\ Patch("files", "failed") /\ Unpatched

\* The library is mapped, and install_il2cpp_state_hooks finds its symbols or
\* does not; or the attempts are used up first.
FindLibrary ==
    /\ il2cpp # "none"
    /\ Patch("library", "check")
    /\ stateHooked' \in BOOLEAN
    /\ UNCHANGED <<installed, tried, ok, hooksReady>>
LibraryTimesOut == il2cpp = "none" /\ Patch("library", "failed") /\ Unpatched

\* wait_for_il2cpp_runtime_state: the flag under its lock, a poll of the
\* runtime without it, and a timed wait if the flag is still down.
RuntimeUp == il2cpp \in {"ready", "classes"}
CheckFlag == Patch("check", IF initDone THEN "targets" ELSE "poll") /\ Unpatched
PollRuntime ==
    /\ patch = "poll"
    /\ patch' = IF RuntimeUp THEN "targets" ELSE IF initDone THEN "check" ELSE "waiting"
    /\ initDone' = (initDone \/ RuntimeUp)
    /\ UNCHANGED <<disk, paths, files, il2cpp, hookedInit, control, watching, budget,
                   history>>
    /\ Unpatched

\* (For the mutant runs: a wait that only the broadcast ends.)
WakeWhenSignalled == initDone /\ Patch("waiting", "check") /\ Unpatched

\* The broadcast or the deadline of the timed wait, whichever is first.
Wake == Patch("waiting", "check") /\ Unpatched

\* wait_for_metadata_hook_targets: the API and every required target resolve,
\* which needs the classes but does not follow from them (this build of the
\* game may not have the method), or else it sleeps and waits again; it does
\* not give up.
ResolveTargets ==
    /\ \/ il2cpp = "classes" /\ Patch("targets", "install")
       \/ Patch("targets", "check")
    /\ Unpatched

Try(h) == h \in Hooks \ tried /\ tried' = tried \cup {h}

\* (For the mutant runs: the result of the last hook is the result of all.)
InstallLastCounts ==
    /\ Patch("install", "install")
    /\ \E h \in Hooks :
          /\ Try(h)
          /\ \/ installed' = installed \cup {h} /\ ok' = TRUE
             \/ h \in Optional /\ UNCHANGED installed /\ ok' = TRUE
             \/ UNCHANGED installed /\ ok' = FALSE
    /\ UNCHANGED <<stateHooked, hooksReady>>

\* install_method_hook, one hook after the other, whatever became of the last:
\* the target is patched, is not in the metadata (a required one has been
\* resolved before) or cannot be patched.
InstallHook ==
    /\ Patch("install", "install")
    /\ \E h \in Hooks :
          /\ Try(h)
          /\ \/ installed' = installed \cup {h} /\ UNCHANGED ok
             \/ h \in Optional /\ UNCHANGED <<installed, ok>>
             \/ UNCHANGED installed /\ ok' = FALSE
    /\ UNCHANGED <<stateHooked, hooksReady>>

FinishHooks ==
    /\ tried = Hooks
    /\ Patch("install", IF ok THEN "apply" ELSE "failed")
    /\ hooksReady' = (hooksReady \/ ok)
    /\ UNCHANGED <<stateHooked, installed, tried, ok>>

-----------------------------------------------------------------------------
(* The control API, under g_control_lock.                                  *)

Goto(t, where) == at' = [at EXCEPT ![t] = where]

\* ADOFAIAsyncInput_SetEnabled and its sisters.
BeginCall(t) ==
    /\ at[t] = "idle" /\ lock = None /\ Spend("calls")
    /\ lock' = t /\ Goto(t, "save")
    /\ \E s \in Switches, on \in BOOLEAN :
          call' = [call EXCEPT ![t] = [switch |-> s, on |-> on]]
    /\ UNCHANGED <<disk, startup, value, active, watching, history>>

\* fopen("wb") truncates, or fails: no path yet, no space.
OpenFile(t) ==
    /\ at[t] = "save"
    /\ LET s == call[t].switch IN
       /\ \/ paths /\ disk' = [disk EXCEPT ![s] = "empty"] /\ Goto(t, "write")
          \/ UNCHANGED disk /\ Goto(t, "set")
       /\ wanted' = [wanted EXCEPT ![s] = call[t].on]
       /\ unsaved' = [unsaved EXCEPT ![s] = TRUE]
    /\ UNCHANGED <<startup, lock, call, value, active, watching, budget>>

\* fputc and fclose, whose results are not read.
WriteFile(t) ==
    /\ at[t] = "write"
    /\ LET s == call[t].switch IN
       \/ /\ disk' = [disk EXCEPT ![s] = IF call[t].on THEN "1" ELSE "0"]
          /\ unsaved' = [unsaved EXCEPT ![s] = FALSE]
       \/ UNCHANGED <<disk, unsaved>>
    /\ Goto(t, "set")
    /\ UNCHANGED <<startup, lock, call, value, active, watching, budget, wanted>>

\* set_enabled_internal through the runtime gate: an enable request stays a
\* request until the hooks are in.
Activate(t, requested) ==
    /\ active' = (requested /\ hooksReady)
    /\ Goto(t, IF active' # active THEN "announce" ELSE "unlock")

SetSwitch(t) ==
    /\ at[t] = "set"
    /\ value' = [value EXCEPT ![call[t].switch] = call[t].on]
    /\ IF call[t].switch = "enabled"
       THEN Activate(t, call[t].on)
       ELSE Goto(t, "unlock") /\ UNCHANGED active
    /\ UNCHANGED <<disk, startup, lock, call, watching, budget, history>>

\* (For the mutant runs: the epoch moves after the observer is copied.)
AnnounceThenCount(t) ==
    /\ at[t] = "announce"
    /\ epoch' = epoch + 1
    /\ letter' = [letter EXCEPT ![t] =
                    [to |-> observer, epoch |-> epoch, says |-> active]]
    /\ Goto(t, "callback")
    /\ UNCHANGED <<disk, startup, lock, call, value, active, observer, told, budget,
                   history>>

\* notify_raw_observer_enabled_changed, under g_raw_observer_lock ...
Announce(t) ==
    /\ at[t] = "announce"
    /\ epoch' = epoch + 1
    /\ letter' = [letter EXCEPT ![t] =
                    [to |-> observer, epoch |-> epoch + 1, says |-> active]]
    /\ Goto(t, "callback")
    /\ UNCHANGED <<disk, startup, lock, call, value, active, observer, told, budget,
                   history>>

\* An observer keeps what came with the newest epoch.
Deliver(t) ==
    /\ letter' = [letter EXCEPT ![t] = NoLetter]
    /\ told' = [o \in Observers |->
                  IF o = letter[t].to /\ letter[t].epoch >= told[o].epoch
                  THEN [epoch |-> letter[t].epoch, says |-> letter[t].says]
                  ELSE told[o]]

\* ... and the callback after it.
Callback(t) ==
    /\ at[t] = "callback"
    /\ Deliver(t)
    /\ Goto(t, "unlock")
    /\ UNCHANGED <<disk, startup, lock, call, value, active, observer, epoch, budget,
                   history>>

EndCall(t) ==
    /\ at[t] = "unlock"
    /\ lock' = None /\ Goto(t, "idle")
    /\ call' = [call EXCEPT ![t] = NoCall]
    /\ patch' = IF t = "patch" THEN "done" ELSE patch
    /\ UNCHANGED <<disk, paths, files, il2cpp, stateHooked, hookedInit, initDone,
                   installed, tried, ok, hooksReady, value, active, watching, budget,
                   history>>

\* (For the mutant runs: a missing file is read as 0.)
LoadedOff(s) == disk[s] = "1"

\* load_bool_file: a missing file means the default, an empty one 0.
Loaded(s) == IF disk[s] = "absent" THEN s \in DefaultOn ELSE disk[s] = "1"

\* apply_persisted_control_state, one critical section of g_control_lock.
ApplyPersisted ==
    /\ patch = "apply" /\ at["patch"] = "idle" /\ lock = None
    /\ lock' = "patch"
    /\ value' = [s \in Switches |-> Loaded(s)]
    /\ Activate("patch", Loaded("enabled"))
    /\ UNCHANGED <<disk, startup, call, watching, budget, history>>

-----------------------------------------------------------------------------
(* ADOFAIAsyncInput_RegisterRawObserverV1, None to unregister.             *)

Register(o) ==
    /\ letter["registrar"] = NoLetter /\ Spend("registers")
    /\ observer' = o
    /\ letter' = [letter EXCEPT !["registrar"] =
                    [to |-> o, epoch |-> epoch, says |-> active]]
    /\ UNCHANGED <<disk, startup, control, epoch, told, history>>

TellRegistered ==
    /\ letter["registrar"] # NoLetter
    /\ Deliver("registrar")
    /\ UNCHANGED <<disk, startup, control, observer, epoch, budget, history>>

-----------------------------------------------------------------------------
PatchStep ==
    \/ FilesSettled \/ FindLibrary \/ LibraryTimesOut \/ CheckFlag \/ PollRuntime
    \/ Wake \/ ResolveTargets \/ InstallHook \/ FinishHooks \/ ApplyPersisted

CallStep(t) == OpenFile(t) \/ WriteFile(t) \/ SetSwitch(t) \/ Announce(t)
               \/ Callback(t) \/ EndCall(t)

UiStep == JoinPaths \/ \E status \in {"ready", "failed"} : SettleFiles(status)

Next == \/ Die \/ UiStep \/ GameAdvances \/ PatchStep
        \/ \E t \in Callers : BeginCall(t)
        \/ \E t \in Threads : CallStep(t)
        \/ \E o \in Observers \cup {None} : Register(o)
        \/ TellRegistered

\* The patch thread runs, and so do calls that began, the activity's start and
\* the game's own initialisation, each of which ends.
Fairness ==
    /\ WF_vars(PatchStep)
    /\ WF_vars(UiStep \/ GameAdvances \/ \E t \in Threads : CallStep(t))

Spec == Init /\ [][Next]_vars /\ Fairness

-----------------------------------------------------------------------------
\* The runtime is active only behind a complete set of hooks: whoever asks,
\* and however its call falls between the installation of the hooks and the
\* reading of the persisted settings.
ActiveOnlyWhenHooked == active => Hooks \ Optional \subseteq installed

\* Once startup is over and no call is under way, every switch is what the
\* user asked for last, in this run of the process or in one that died, unless
\* the file of that last request was not written to its end.
IntentRecovered ==
    patch = "done" /\ lock = None =>
        /\ \A s \in Switches : unsaved[s] \/ value[s] = wanted[s]
        /\ active = value["enabled"]

\* When no callback is under way, the newest epoch the registered observer
\* heard of is the current one, and told it the current state: a callback of
\* a registration that a change overtook does not mislead it.
ObserverSeesLatest ==
    observer # None /\ lock = None /\ letter["registrar"] = NoLetter =>
        told[observer] = [epoch |-> epoch, says |-> active]

\* Every startup ends, hooked or given up, and leaves the control lock free,
\* but for one that asks for the hook targets again and again because the API
\* or a required target does not resolve: the thread polls for them for ever.
\* No wake-up of the patch thread is lost, however early or late the game
\* initialises its runtime.
StartupEnds == \/ <>[](patch \in {"done", "failed"} /\ lock = None)
               \/ []<>(patch = "targets")
=============================================================================
