------------------------- MODULE ControlPlaneProofs -------------------------
(***************************************************************************)
(* What module ControlPlane promises, for any number of callers, switches, *)
(* hooks and observers, and over any number of deaths of the process: the  *)
(* runtime is never active without its hooks, the last saved request wins, *)
(* and the registered observer knows the current state.                    *)
(***************************************************************************)
EXTENDS ControlPlane, TLAPS

Contents == {"absent", "empty", "0", "1"}
Places == {"files", "library", "check", "poll", "waiting", "targets",
           "install", "apply", "done", "failed"}
Stages == {"idle", "save", "write", "set", "announce", "callback", "unlock"}
Letter == [to : Observers \cup {None}, epoch : Nat, says : BOOLEAN]
Heard == [epoch : Nat, says : BOOLEAN]

StartupTypes ==
    /\ patch \in Places
    /\ installed \subseteq Hooks /\ tried \subseteq Hooks
    /\ ok \in BOOLEAN /\ hooksReady \in BOOLEAN

CallTypes ==
    /\ lock \in Threads \cup {None}
    /\ at \in [Threads -> Stages]
    /\ call \in [Threads -> [switch : Switches, on : BOOLEAN]]

SwitchTypes ==
    /\ disk \in [Switches -> Contents]
    /\ value \in [Switches -> BOOLEAN] /\ active \in BOOLEAN
    /\ wanted \in [Switches -> BOOLEAN] /\ unsaved \in [Switches -> BOOLEAN]

WatchTypes ==
    /\ observer \in Observers \cup {None}
    /\ epoch \in Nat \ {0}
    /\ letter \in [Threads \cup {"registrar"} -> Letter]
    /\ told \in [Observers -> Heard]

Types == StartupTypes /\ CallTypes /\ SwitchTypes /\ WatchTypes

\* The hooks are complete where the patch thread says so.
Hooked ==
    /\ ok => tried \ Optional \subseteq installed
    /\ hooksReady => Hooks \ Optional \subseteq installed
    /\ patch \in {"apply", "done"} => hooksReady
    /\ active => hooksReady

\* g_control_lock: a thread is in a control call exactly while it holds it,
\* and the patch thread is in one only while it applies the settings.
Locked ==
    /\ \A t \in Threads : at[t] # "idle" <=> lock = t
    /\ at["patch"] # "idle" => patch = "apply"
    /\ at["patch"] \notin {"save", "write", "set"}

\* The persisted settings have been read.
Applied == patch = "done" \/ at["patch"] # "idle"

\* The call of t has reached the file but not yet the value of s in memory.
Between(t, s) == at[t] \in {"write", "set"} /\ call[t].switch = s

\* A file whose last request was written to its end reads as that request,
\* and once the files have been read so does the value in memory.
Kept ==
    /\ \A s \in Switches : unsaved[s] \/ Loaded(s) = wanted[s]
    /\ \A t \in Threads, s \in Switches : Between(t, s) => wanted[s] = call[t].on
    /\ Applied => \A s \in Switches :
                     \/ unsaved[s] \/ value[s] = wanted[s]
                     \/ \E t \in Threads : Between(t, s)
    /\ Applied => active = value["enabled"]

Quiet == \A t \in Threads : at[t] # "announce"

\* Nobody has heard, or is about to hear, of an epoch to come; and unless a
\* change is still to be counted, the current epoch says the current state.
Current ==
    /\ \A w \in Threads \cup {"registrar"} :
          /\ letter[w].epoch <= epoch
          /\ Quiet /\ letter[w].epoch = epoch => letter[w].says = active
    /\ \A o \in Observers :
          /\ told[o].epoch <= epoch
          /\ Quiet /\ told[o].epoch = epoch => told[o].says = active

OnItsWay(w) == letter[w].to = observer /\ letter[w].epoch = epoch

\* The current epoch has reached the registered observer or is on its way.
Reached ==
    observer # None /\ Quiet =>
        \/ told[observer].epoch = epoch
        \/ OnItsWay("registrar")
        \/ \E t \in Threads : at[t] = "callback" /\ OnItsWay(t)

CPInv == Types /\ Hooked /\ Locked /\ Kept /\ Current /\ Reached

-----------------------------------------------------------------------------
LEMMA FreshTypes ==
    /\ Idle \in [Threads -> Stages] /\ \A t \in Threads : Idle[t] = "idle"
    /\ NoCalls \in [Threads -> [switch : Switches, on : BOOLEAN]]
    /\ NoLetter \in Letter
    /\ NoLetters \in [Threads \cup {"registrar"} -> Letter]
    /\ \A w \in Threads \cup {"registrar"} : NoLetters[w] = NoLetter
    /\ Unheard \in Heard
    /\ Defaults \in [Switches -> BOOLEAN]
<1>1. Idle \in [Threads -> Stages] /\ \A t \in Threads : Idle[t] = "idle"
  BY DEF Idle, Stages
<1>2. NoCalls \in [Threads -> [switch : Switches, on : BOOLEAN]]
  BY DEF NoCalls, NoCall, Switches
<1>3. NoLetter \in Letter /\ Unheard \in Heard
  BY DEF NoLetter, Letter, Unheard, Heard
<1>4. /\ NoLetters \in [Threads \cup {"registrar"} -> Letter]
      /\ \A w \in Threads \cup {"registrar"} : NoLetters[w] = NoLetter
  BY <1>3 DEF NoLetters
<1>5. Defaults \in [Switches -> BOOLEAN]
  <2>2. Defaults = [s \in Switches |-> Defaults[s]]
    BY DEF Defaults
  <2>3. \A s \in Switches : Defaults[s] = TRUE \/ Defaults[s] = FALSE
    <3> SUFFICES ASSUME NEW s \in Switches
                 PROVE  Defaults[s] = TRUE \/ Defaults[s] = FALSE
      OBVIOUS
    <3> QED
      BY DEF Defaults
  <2> QED
    BY <2>2, <2>3
<1> QED
  BY <1>1, <1>2, <1>3, <1>4, <1>5

LEMMA Initially == Init => CPInv
<1> SUFFICES ASSUME Init PROVE CPInv
  OBVIOUS
<1> USE FreshTypes DEF Init
<1>1. Types
  <2>1. StartupTypes
    BY DEF StartupTypes, Places
  <2>2. CallTypes
    BY DEF CallTypes
  <2>3. disk \in [Switches -> Contents] /\ active \in BOOLEAN
    BY DEF Contents
  <2>4. value \in [Switches -> BOOLEAN] /\ wanted \in [Switches -> BOOLEAN]
    OBVIOUS
  <2>5. unsaved \in [Switches -> BOOLEAN]
    OBVIOUS
  <2>6. SwitchTypes
    BY <2>3, <2>4, <2>5 DEF SwitchTypes
  <2>7. WatchTypes
    BY DEF WatchTypes
  <2> QED
    BY <2>1, <2>2, <2>6, <2>7 DEF Types
<1>2. Hooked
  BY DEF Hooked
<1>3. Locked
  BY ControlPlaneAssumption DEF Locked, Threads
<1>4. Kept
  BY DEF Kept, Applied, Between, Loaded, Threads, Defaults
<1>5. Current
  BY DEF Current, NoLetter, Unheard
<1>6. Reached
  BY DEF Reached
<1> QED
  BY <1>1, <1>2, <1>3, <1>4, <1>5, <1>6 DEF CPInv

\* A death resets everything but the files and what was asked for.
LEMMA DieKeeps == CPInv /\ Die => CPInv'
<1> SUFFICES ASSUME CPInv, Die PROVE CPInv'
  OBVIOUS
<1> USE FreshTypes DEF Die
<1>1. Types'
  <2>1. StartupTypes'
    BY DEF StartupTypes, Places
  <2>2. CallTypes'
    BY DEF CallTypes
  <2>3. value' \in [Switches -> BOOLEAN] /\ active' \in BOOLEAN
    OBVIOUS
  <2>4. UNCHANGED <<disk, wanted, unsaved>>
    BY DEF history
  <2>5. SwitchTypes
    BY DEF CPInv, Types
  <2>6. SwitchTypes'
    BY <2>3, <2>4, <2>5 DEF SwitchTypes
  <2>7. WatchTypes'
    BY DEF WatchTypes
  <2> QED
    BY <2>1, <2>2, <2>6, <2>7 DEF Types
<1>2. Hooked'
  BY DEF Hooked
<1>3. Locked'
  BY ControlPlaneAssumption DEF Locked, Threads
<1>4. Kept'
  BY DEF CPInv, Kept, Applied, Between, Loaded, Threads, history
<1>5. Current'
  BY DEF Current, NoLetter, Unheard
<1>6. Reached'
  BY DEF Reached
<1> QED
  BY <1>1, <1>2, <1>3, <1>4, <1>5, <1>6 DEF CPInv

\* The steps of startup that change neither a switch nor the observer.
Startup ==
    \/ UiStep \/ GameAdvances \/ FilesSettled \/ FindLibrary \/ LibraryTimesOut
    \/ CheckFlag \/ PollRuntime \/ Wake \/ ResolveTargets \/ InstallHook \/ FinishHooks

\* Where the patch thread goes in such a step, and what it may claim there.
LEMMA StartupMoves ==
    ASSUME CPInv, Startup
    PROVE  /\ UNCHANGED <<disk, control, watching, history>>
           /\ \/ UNCHANGED patch
              \/ /\ patch \notin {"apply", "done"}
                 /\ patch' \in Places \ {"done"}
<1> USE DEF Places
<1>1. CASE UiStep \/ GameAdvances
  BY <1>1 DEF UiStep, JoinPaths, SettleFiles, GameAdvances
<1>2. CASE FilesSettled \/ FindLibrary \/ LibraryTimesOut \/ CheckFlag
  BY <1>2 DEF FilesSettled, FindLibrary, LibraryTimesOut, CheckFlag, Patch
<1>3. CASE PollRuntime \/ Wake \/ ResolveTargets
  BY <1>3 DEF PollRuntime, Wake, ResolveTargets, Patch
<1>4. CASE InstallHook \/ FinishHooks
  BY <1>4 DEF InstallHook, FinishHooks, Patch
<1> QED
  BY <1>1, <1>2, <1>3, <1>4 DEF Startup

LEMMA StartupHooks ==
    ASSUME CPInv, Startup
    PROVE  /\ installed' \subseteq Hooks /\ tried' \subseteq Hooks
           /\ ok' \in BOOLEAN /\ hooksReady' \in BOOLEAN
           /\ Hooked'
<1> USE DEF CPInv, Types, StartupTypes, Hooked
<1>1. CASE UiStep \/ GameAdvances
  BY <1>1 DEF UiStep, JoinPaths, SettleFiles, GameAdvances, control
<1>2. CASE FilesSettled \/ FindLibrary \/ LibraryTimesOut \/ CheckFlag
  BY <1>2 DEF FilesSettled, FindLibrary, LibraryTimesOut, CheckFlag, Patch, Unpatched,
              control
<1>3. CASE PollRuntime \/ Wake \/ ResolveTargets
  BY <1>3 DEF PollRuntime, Wake, ResolveTargets, Patch, Unpatched, control
<1>4. CASE InstallHook
  <2>1. UNCHANGED <<active, hooksReady>> /\ patch' = "install"
    BY <1>4 DEF InstallHook, Patch, control
  <2>2. PICK h \in Hooks :
          /\ Try(h)
          /\ \/ installed' = installed \cup {h} /\ UNCHANGED ok
             \/ UNCHANGED installed /\ ok' = (ok /\ h \in Optional)
             \/ UNCHANGED installed /\ ok' = FALSE
    BY <1>4 DEF InstallHook
  <2>3. tried' = tried \cup {h}
    BY <2>2 DEF Try
  <2>4. ok' \in BOOLEAN
    BY <2>2
  <2>5. ok' => tried' \ Optional \subseteq installed'
    BY <2>2, <2>3
  <2>6. installed \subseteq installed' /\ installed' \subseteq Hooks
    BY <2>2
  <2> QED
    BY <2>1, <2>3, <2>4, <2>5, <2>6
<1>5. CASE FinishHooks
  BY <1>5 DEF FinishHooks, Patch, control
<1> QED
  BY <1>1, <1>2, <1>3, <1>4, <1>5 DEF Startup

LEMMA StartupKeeps == CPInv /\ Startup => CPInv'
<1> SUFFICES ASSUME CPInv, Startup PROVE CPInv'
  OBVIOUS
<1>1. UNCHANGED <<disk, control, watching, history>>
  BY StartupMoves, Zenon
<1>2. \/ UNCHANGED patch
      \/ patch \notin {"apply", "done"} /\ patch' \in Places \ {"done"}
  BY StartupMoves
<1> USE DEF control, watching, history
<1>3. Types'
  BY <1>1, <1>2, StartupHooks
  DEF CPInv, Types, StartupTypes, CallTypes, SwitchTypes, WatchTypes
<1>4. Locked'
  BY <1>1, <1>2 DEF CPInv, Locked
<1>5. Kept'
  <2>1. Applied' <=> Applied
    BY <1>1, <1>2 DEF CPInv, Locked, Applied
  <2> QED
    BY <1>1, <2>1 DEF CPInv, Kept, Between, Loaded
<1>6. Current' /\ Reached'
  BY <1>1 DEF CPInv, Current, Reached, Quiet, OnItsWay
<1> QED
  BY <1>3, <1>4, <1>5, <1>6, StartupHooks DEF CPInv

-----------------------------------------------------------------------------
\* A step of a control call: one thread goes on, the other threads are idle.
LEMMA OneAtATime ==
    ASSUME CPInv, NEW t \in Threads, at[t] # "idle"
    PROVE  /\ lock = t
           /\ \A u \in Threads : u # t => at[u] = "idle"
BY DEF CPInv, Locked

LEMMA BeginCallKeeps == ASSUME CPInv, NEW t \in Callers, BeginCall(t) PROVE CPInv'
<1>1. t \in Threads /\ t # "patch" /\ t # None
  BY ControlPlaneAssumption DEF Threads
<1>2. /\ lock = None /\ lock' = t /\ at' = [at EXCEPT ![t] = "save"]
      /\ UNCHANGED <<disk, startup, value, active, watching, history>>
  BY DEF BeginCall, Goto
<1>3. PICK s \in Switches, on \in BOOLEAN :
        call' = [call EXCEPT ![t] = [switch |-> s, on |-> on]]
  BY DEF BeginCall
<1>4. \A u \in Threads : at[u] = "idle"
  BY <1>2, ControlPlaneAssumption DEF CPInv, Locked
<1> USE DEF startup, watching, history
<1>5. Types'
  BY <1>1, <1>2, <1>3
  DEF CPInv, Types, StartupTypes, CallTypes, SwitchTypes, WatchTypes, Stages
<1>6. Hooked'
  BY <1>2 DEF CPInv, Hooked
<1>7. Locked'
  BY <1>1, <1>2, <1>4 DEF CPInv, Types, CallTypes, Locked
<1>8. Kept'
  <2>1. Applied' <=> Applied
    BY <1>1, <1>2 DEF CPInv, Types, CallTypes, Applied
  <2>2. \A u \in Threads, s1 \in Switches : ~Between(u, s1) /\ ~Between(u, s1)'
    BY <1>1, <1>2, <1>4 DEF CPInv, Types, CallTypes, Between
  <2> QED
    BY <1>2, <2>1, <2>2 DEF CPInv, Kept, Loaded
<1>9. Current' /\ Reached'
  <2>1. Quiet /\ Quiet'
    BY <1>1, <1>2, <1>4 DEF CPInv, Types, CallTypes, Quiet
  <2>2. \A u \in Threads : at[u] # "callback"
    BY <1>4
  <2> QED
    BY <1>2, <2>1, <2>2 DEF CPInv, Current, Reached, OnItsWay
<1> QED
  BY <1>5, <1>6, <1>7, <1>8, <1>9 DEF CPInv

\* What a step inside a call leaves alone, and where it may go.
Inside(t, where) ==
    /\ at[t] # "idle" /\ where \in Stages \ {"idle"}
    /\ where \notin {"save", "write", "set"} \/ t # "patch"
    /\ at' = [at EXCEPT ![t] = where]
    /\ UNCHANGED <<startup, lock, call>>

LEMMA InsideKeeps ==
    ASSUME CPInv, NEW t \in Threads, NEW where, Inside(t, where)
    PROVE  /\ StartupTypes' /\ CallTypes' /\ Locked'
           /\ Applied' <=> Applied
           /\ \A u \in Threads : at'[u] = IF u = t THEN where ELSE "idle"
           /\ \A u \in Threads : u # t => at[u] = "idle"
<1> USE DEF Inside
<1>1. \A u \in Threads : u # t => at[u] = "idle"
  BY OneAtATime
<1>2. \A u \in Threads : at'[u] = IF u = t THEN where ELSE "idle"
  BY <1>1 DEF CPInv, Types, CallTypes
<1>3. StartupTypes' /\ CallTypes'
  BY DEF CPInv, Types, StartupTypes, CallTypes, startup
<1>4. Locked'
  <2>1. lock = t
    BY OneAtATime
  <2>2. \A u \in Threads : at'[u] # "idle" <=> lock' = u
    BY <1>2, <2>1
  <2>3. "patch" \in Threads
    BY DEF Threads
  <2> QED
    BY <1>1, <1>2, <2>2, <2>3 DEF CPInv, Locked, startup
<1>5. Applied' <=> Applied
  <2>1. "patch" \in Threads
    BY DEF Threads
  <2> QED
    BY <1>1, <1>2, <2>1 DEF Applied, startup
<1> QED
  BY <1>1, <1>2, <1>3, <1>4, <1>5

LEMMA OpenFileKeeps == ASSUME CPInv, NEW t \in Threads, OpenFile(t) PROVE CPInv'
<1> DEFINE s == call[t].switch
<1>1. /\ at[t] = "save" /\ t # "patch"
      /\ UNCHANGED <<startup, lock, call, value, active, watching>>
  BY DEF OpenFile, CPInv, Locked
<1>2. /\ wanted' = [wanted EXCEPT ![s] = call[t].on]
      /\ unsaved' = [unsaved EXCEPT ![s] = TRUE]
  BY DEF OpenFile
<1>3. PICK where \in {"write", "set"} :
        /\ at' = [at EXCEPT ![t] = where]
        /\ UNCHANGED disk \/ disk' = [disk EXCEPT ![s] = "empty"]
  BY DEF OpenFile, Goto
<1>4. Inside(t, where)
  BY <1>1, <1>3 DEF Inside, Stages
<1>5. /\ StartupTypes' /\ CallTypes' /\ Locked'
      /\ Applied' <=> Applied
      /\ \A u \in Threads : at'[u] = IF u = t THEN where ELSE "idle"
      /\ \A u \in Threads : u # t => at[u] = "idle"
  BY <1>4, InsideKeeps
<1>6. s \in Switches /\ call[t].on \in BOOLEAN
  BY DEF CPInv, Types, CallTypes
<1> HIDE DEF s
<1>7. SwitchTypes' /\ WatchTypes'
  <2>1. disk' \in [Switches -> Contents]
    BY <1>3, <1>6 DEF CPInv, Types, SwitchTypes, Contents
  <2>2. wanted' \in [Switches -> BOOLEAN]
    BY <1>2, <1>6 DEF CPInv, Types, SwitchTypes
  <2>3. unsaved' \in [Switches -> BOOLEAN]
    BY <1>2, <1>6 DEF CPInv, Types, SwitchTypes
  <2> QED
    BY <1>1, <2>1, <2>2, <2>3 DEF CPInv, Types, SwitchTypes, WatchTypes, watching
<1>8. Hooked'
  BY <1>1 DEF CPInv, Hooked, startup
<1>9. Kept'
  <2>1. \A r \in Switches : r # s => /\ wanted'[r] = wanted[r] /\ unsaved'[r] = unsaved[r]
                                     /\ disk'[r] = disk[r]
    BY <1>2, <1>3 DEF CPInv, Types, SwitchTypes
  <2>2. unsaved'[s] /\ wanted'[s] = call[t].on
    BY <1>2, <1>6 DEF CPInv, Types, SwitchTypes
  <2>3. \A u \in Threads, r \in Switches : ~Between(u, r)
    BY <1>1, <1>5 DEF Between
  <2>4. \A u \in Threads, r \in Switches : Between(u, r)' => u = t /\ r = s
    BY <1>1, <1>5 DEF Between, s
  <2>5. \A r \in Switches : unsaved'[r] \/ Loaded(r)' = wanted'[r]
    BY <2>1, <2>2 DEF CPInv, Kept, Loaded
  <2>6. \A u \in Threads, r \in Switches : Between(u, r)' => wanted'[r] = call'[u].on
    BY <1>1, <2>2, <2>4
  <2>7. Applied' => \A r \in Switches : unsaved'[r] \/ value'[r] = wanted'[r]
    BY <1>1, <1>5, <2>1, <2>2, <2>3 DEF CPInv, Kept
  <2>8. Applied' => active' = value'["enabled"]
    BY <1>1, <1>5 DEF CPInv, Kept
  <2> QED
    BY <2>5, <2>6, <2>7, <2>8 DEF Kept
<1>10. Current' /\ Reached'
  <2>1. Quiet /\ Quiet' /\ \A u \in Threads : at[u] # "callback"
    BY <1>1, <1>5 DEF Quiet
  <2> QED
    BY <1>1, <2>1 DEF CPInv, Current, Reached, OnItsWay, watching
<1> QED
  BY <1>5, <1>7, <1>8, <1>9, <1>10 DEF CPInv, Types

LEMMA WriteFileKeeps == ASSUME CPInv, NEW t \in Threads, WriteFile(t) PROVE CPInv'
<1> PICK s \in Switches : s = call[t].switch
  BY DEF CPInv, Types, CallTypes
<1>1. /\ at[t] = "write" /\ t # "patch"
      /\ UNCHANGED <<startup, lock, call, value, active, watching, wanted>>
      /\ at' = [at EXCEPT ![t] = "set"]
  BY DEF WriteFile, Goto, CPInv, Locked
<1>2. \/ /\ disk' = [disk EXCEPT ![s] = IF call[t].on THEN "1" ELSE "0"]
         /\ unsaved' = [unsaved EXCEPT ![s] = FALSE]
      \/ UNCHANGED <<disk, unsaved>>
  BY DEF WriteFile
<1>3. Inside(t, "set")
  BY <1>1 DEF Inside, Stages
<1>4. /\ StartupTypes' /\ CallTypes' /\ Locked'
      /\ Applied' <=> Applied
      /\ \A u \in Threads : at'[u] = IF u = t THEN "set" ELSE "idle"
      /\ \A u \in Threads : u # t => at[u] = "idle"
  BY <1>3, InsideKeeps
<1>5. call[t].on \in BOOLEAN
  BY DEF CPInv, Types, CallTypes
<1>6. Between(t, s)
  BY <1>1 DEF Between
<1>7. SwitchTypes' /\ WatchTypes'
  <2>1. disk' \in [Switches -> Contents]
    BY <1>2, <1>5 DEF CPInv, Types, SwitchTypes, Contents
  <2>2. unsaved' \in [Switches -> BOOLEAN]
    BY <1>2, <1>5 DEF CPInv, Types, SwitchTypes
  <2> QED
    BY <1>1, <2>1, <2>2 DEF CPInv, Types, SwitchTypes, WatchTypes, watching
<1>8. Hooked'
  BY <1>1 DEF CPInv, Hooked, startup
<1>9. Kept'
  <2>1. \A r \in Switches : r # s => unsaved'[r] = unsaved[r] /\ disk'[r] = disk[r]
    BY <1>2 DEF CPInv, Types, SwitchTypes
  <2>2. wanted[s] = call[t].on
    BY <1>5, <1>6 DEF CPInv, Kept
  <2>3. unsaved'[s] \/ Loaded(s)' = wanted[s]
    <3>1. CASE UNCHANGED <<disk, unsaved>>
      BY <1>5, <3>1 DEF CPInv, Kept, Loaded
    <3>2. CASE disk' = [disk EXCEPT ![s] = IF call[t].on THEN "1" ELSE "0"]
      <4>1. disk'[s] = IF call[t].on THEN "1" ELSE "0"
        BY <1>5, <3>2 DEF CPInv, Types, SwitchTypes
      <4> QED
        BY <1>5, <2>2, <4>1 DEF Loaded
    <3> QED
      BY <1>2, <3>1, <3>2
  <2>4. \A u \in Threads, r \in Switches : Between(u, r)' <=> Between(u, r)
    BY <1>1, <1>4 DEF Between
  <2>5. \A r \in Switches : unsaved'[r] \/ Loaded(r)' = wanted'[r]
    BY <1>1, <2>1, <2>3 DEF CPInv, Kept, Loaded
  <2>6. \A u \in Threads, r \in Switches : Between(u, r)' => wanted'[r] = call'[u].on
    BY <1>1, <2>4 DEF CPInv, Kept
  <2>7. ASSUME Applied', NEW r \in Switches
        PROVE  \/ unsaved'[r] \/ value'[r] = wanted'[r]
               \/ \E u \in Threads : Between(u, r)'
    <3>1. CASE r = s
      BY <1>6, <2>4, <3>1
    <3>2. CASE r # s
      BY <1>1, <1>4, <2>1, <2>4, <2>7, <3>2 DEF CPInv, Kept
    <3> QED
      BY <3>1, <3>2
  <2>8. Applied' => active' = value'["enabled"]
    BY <1>1, <1>4 DEF CPInv, Kept
  <2> QED
    BY <2>5, <2>6, <2>7, <2>8 DEF Kept
<1>10. Current' /\ Reached'
  <2>1. Quiet /\ Quiet' /\ \A u \in Threads : at[u] # "callback"
    BY <1>1, <1>4 DEF Quiet
  <2> QED
    BY <1>1, <2>1 DEF CPInv, Current, Reached, OnItsWay, watching
<1> QED
  BY <1>4, <1>7, <1>8, <1>9, <1>10 DEF CPInv, Types

\* The value in memory follows the file; the active state follows the value
\* once the hooks are in, and a change of it is still to be announced.
LEMMA SetSwitchKeeps == ASSUME CPInv, NEW t \in Threads, SetSwitch(t) PROVE CPInv'
<1> DEFINE s == call[t].switch
<1>1. /\ at[t] = "set" /\ t # "patch"
      /\ UNCHANGED <<disk, startup, lock, call, watching, history>>
      /\ value' = [value EXCEPT ![s] = call[t].on]
  BY DEF SetSwitch, CPInv, Locked
<1>2. PICK where \in {"announce", "unlock"} :
        /\ at' = [at EXCEPT ![t] = where]
        /\ where = "unlock" => active' = active
        /\ IF s = "enabled" THEN active' = (call[t].on /\ hooksReady)
           ELSE active' = active
  BY DEF SetSwitch, Activate, Goto
<1>3. Inside(t, where)
  BY <1>1, <1>2 DEF Inside, Stages
<1>4. /\ StartupTypes' /\ CallTypes' /\ Locked'
      /\ Applied' <=> Applied
      /\ \A u \in Threads : at'[u] = IF u = t THEN where ELSE "idle"
      /\ \A u \in Threads : u # t => at[u] = "idle"
  BY <1>3, InsideKeeps
<1>5. s \in Switches /\ call[t].on \in BOOLEAN
  BY DEF CPInv, Types, CallTypes
<1>6. Between(t, s)
  BY <1>1 DEF Between
<1> HIDE DEF s
<1>7. SwitchTypes' /\ WatchTypes'
  <2>1. value' \in [Switches -> BOOLEAN]
    BY <1>1, <1>5 DEF CPInv, Types, SwitchTypes
  <2>2. active' \in BOOLEAN
    BY <1>2, <1>5 DEF CPInv, Types, SwitchTypes, StartupTypes
  <2> QED
    BY <1>1, <2>1, <2>2 DEF CPInv, Types, SwitchTypes, WatchTypes, watching, history
<1>8. Hooked'
  <2>1. UNCHANGED <<ok, tried, installed, hooksReady, patch>>
    BY <1>1 DEF startup
  <2>2. active' => active \/ hooksReady
    BY <1>2
  <2> QED
    BY <2>1, <2>2 DEF CPInv, Hooked
<1>9. Kept'
  <2>1. value'[s] = call[t].on /\ \A r \in Switches : r # s => value'[r] = value[r]
    BY <1>1, <1>5 DEF CPInv, Types, SwitchTypes
  <2>2. wanted[s] = call[t].on
    BY <1>5, <1>6 DEF CPInv, Kept
  <2>3. \A u \in Threads, r \in Switches : Between(u, r) => r = s
    BY <1>1, <1>4 DEF Between, s
  <2>4. \A u \in Threads, r \in Switches : ~Between(u, r)'
    BY <1>2, <1>4 DEF Between
  <2>5. \A r \in Switches : unsaved'[r] \/ Loaded(r)' = wanted'[r]
    BY <1>1 DEF CPInv, Kept, Loaded, history
  <2>6. Applied' => \A r \in Switches : unsaved'[r] \/ value'[r] = wanted'[r]
    BY <1>1, <1>4, <2>1, <2>2, <2>3 DEF CPInv, Kept, history
  <2>7. Applied => hooksReady
    <3>1. "patch" \in Threads
      BY DEF Threads
    <3> QED
      BY <1>1, <1>4, <3>1 DEF Applied, CPInv, Hooked
  <2>8. Applied' => active' = value'["enabled"]
    <3>1. CASE s = "enabled"
      <4>1. hooksReady \in BOOLEAN
        BY DEF CPInv, Types, StartupTypes
      <4>2. active' = (call[t].on /\ hooksReady)
        BY <1>2, <3>1
      <4>3. Applied' => active' = call[t].on
        BY <1>4, <1>5, <2>7, <4>1, <4>2
      <4> QED
        BY <2>1, <3>1, <4>3
    <3>2. CASE s # "enabled"
      BY <1>2, <1>4, <2>1, <3>2 DEF CPInv, Kept, Switches
    <3> QED
      BY <3>1, <3>2
  <2> QED
    BY <2>4, <2>5, <2>6, <2>8 DEF Kept
<1>10. Current' /\ Reached'
  <2>1. Quiet /\ \A u \in Threads : at[u] # "callback"
    BY <1>1, <1>4 DEF Quiet
  <2>2. Quiet' => active' = active
    BY <1>2, <1>4 DEF Quiet
  <2> QED
    BY <1>1, <2>1, <2>2 DEF CPInv, Current, Reached, OnItsWay, watching
<1> QED
  BY <1>4, <1>7, <1>8, <1>9, <1>10 DEF CPInv, Types

\* A step inside a call that leaves the switches alone, and is neither before
\* nor behind the value in memory, keeps what is said of them.
LEMMA SwitchesKept ==
    ASSUME CPInv, NEW t \in Threads, NEW where \in Stages \ {"save", "write", "set"},
           at[t] \notin {"write", "set"}, at' = [at EXCEPT ![t] = where],
           Applied' <=> Applied,
           UNCHANGED <<disk, value, active, history>>,
           \A u \in Threads : u # t => at[u] = "idle"
    PROVE  SwitchTypes' /\ Kept'
<1>1. \A u \in Threads, r \in Switches : ~Between(u, r) /\ ~Between(u, r)'
  BY DEF CPInv, Types, CallTypes, Between
<1>2. SwitchTypes'
  BY DEF CPInv, Types, SwitchTypes, history
<1> QED
  BY <1>1, <1>2 DEF CPInv, Kept, Loaded, history

\* A callback: what an observer has heard only gets newer, and the current
\* epoch that was on its way has arrived.
LEMMA DeliverKeeps ==
    ASSUME CPInv, NEW w \in Threads \cup {"registrar"}, Deliver(w),
           UNCHANGED <<epoch, observer, active>>,
           Quiet' <=> Quiet,
           \A u \in Threads \ {w} : at[u] = "callback" => at'[u] = "callback"
    PROVE  WatchTypes' /\ Current' /\ Reached'
<1> DEFINE W == Threads \cup {"registrar"}
<1>1. /\ letter \in [W -> Letter] /\ told \in [Observers -> Heard]
      /\ epoch \in Nat \ {0} /\ observer \in Observers \cup {None}
  BY DEF CPInv, Types, WatchTypes
<1>2. /\ letter' = [letter EXCEPT ![w] = NoLetter]
      /\ \A v \in W : letter'[v] = IF v = w THEN NoLetter ELSE letter[v]
  BY <1>1 DEF Deliver
<1>3. /\ told' = [o \in Observers |->
                  IF o = letter[w].to /\ letter[w].epoch >= told[o].epoch
                  THEN [epoch |-> letter[w].epoch, says |-> letter[w].says]
                  ELSE told[o]]
      /\ \A o \in Observers : told'[o] =
                  IF o = letter[w].to /\ letter[w].epoch >= told[o].epoch
                  THEN [epoch |-> letter[w].epoch, says |-> letter[w].says]
                  ELSE told[o]
  BY DEF Deliver
<1>4. letter[w] \in Letter /\ letter[w].epoch \in Nat /\ letter[w].says \in BOOLEAN
  BY <1>1 DEF Letter
<1>5. WatchTypes'
  <2>1. letter' \in [W -> Letter]
    BY <1>1, <1>2, FreshTypes
  <2>2. told' \in [Observers -> Heard]
    BY <1>1, <1>3, <1>4 DEF Heard
  <2> QED
    BY <1>1, <2>1, <2>2 DEF WatchTypes
<1>6. Current'
  <2>1. \A v \in W : /\ letter'[v].epoch <= epoch'
                     /\ Quiet' /\ letter'[v].epoch = epoch' => letter'[v].says = active'
    <3> TAKE v \in W
    <3>1. CASE v = w
      <4>1. letter'[v].epoch = 0 /\ epoch' = epoch
        BY <1>2, <3>1 DEF NoLetter
      <4> QED
        BY <1>1, <4>1
    <3>2. CASE v # w
      <4>1. letter'[v] = letter[v]
        BY <1>2, <3>2
      <4> QED
        BY <4>1 DEF CPInv, Current
    <3> QED
      BY <3>1, <3>2
  <2>2. ASSUME NEW o \in Observers
        PROVE  /\ told'[o].epoch <= epoch'
               /\ Quiet' /\ told'[o].epoch = epoch' => told'[o].says = active'
    <3>1. CASE told'[o] = told[o]
      BY <3>1 DEF CPInv, Current
    <3>2. CASE told'[o] = [epoch |-> letter[w].epoch, says |-> letter[w].says]
      BY <3>2 DEF CPInv, Current
    <3> QED
      BY <1>3, <3>1, <3>2
  <2> QED
    BY <2>1, <2>2 DEF Current
<1>7. Reached'
  <2> SUFFICES ASSUME observer # None, Quiet
               PROVE  \/ told'[observer].epoch = epoch
                      \/ OnItsWay("registrar")'
                      \/ \E u \in Threads : at'[u] = "callback" /\ OnItsWay(u)'
    BY DEF Reached
  <2>1. observer \in Observers
    BY <1>1
  <2>2. told[observer] \in Heard /\ told[observer].epoch \in Nat
    BY <1>1, <2>1 DEF Heard
  <2>3. CASE told[observer].epoch = epoch
    <3>1. letter[w].epoch <= epoch
      BY DEF CPInv, Current
    <3>2. letter[w].epoch >= told[observer].epoch => letter[w].epoch = epoch
      BY <1>1, <1>4, <2>3, <3>1
    <3>3. \/ told'[observer] = told[observer]
          \/ /\ told'[observer] = [epoch |-> letter[w].epoch, says |-> letter[w].says]
             /\ letter[w].epoch >= told[observer].epoch
      BY <1>3, <2>1
    <3> QED
      BY <2>3, <3>2, <3>3
  <2>4. CASE OnItsWay(w)
    <3>1. letter[w].to = observer /\ letter[w].epoch = epoch
      BY <2>4 DEF OnItsWay
    <3>2. told[observer].epoch <= epoch
      BY <2>1 DEF CPInv, Current
    <3>3. letter[w].epoch >= told[observer].epoch
      BY <1>1, <2>2, <3>1, <3>2
    <3>4. told'[observer] = [epoch |-> letter[w].epoch, says |-> letter[w].says]
      BY <1>3, <2>1, <3>1, <3>3
    <3> QED
      BY <3>1, <3>4
  <2>5. ASSUME NEW v \in W, v # w, OnItsWay(v) PROVE OnItsWay(v)'
    BY <1>2, <2>5 DEF OnItsWay
  <2>6. \/ told[observer].epoch = epoch
        \/ OnItsWay("registrar")
        \/ \E u \in Threads : at[u] = "callback" /\ OnItsWay(u)
    BY DEF CPInv, Reached
  <2>7. CASE OnItsWay("registrar") /\ w # "registrar"
    BY <2>5, <2>7
  <2>8. CASE \E u \in Threads \ {w} : at[u] = "callback" /\ OnItsWay(u)
    <3>1. PICK u \in Threads \ {w} : at[u] = "callback" /\ OnItsWay(u)
      BY <2>8
    <3>2. OnItsWay(u)' /\ at'[u] = "callback"
      BY <2>5, <3>1
    <3> QED
      BY <3>2
  <2> QED
    BY <2>3, <2>4, <2>6, <2>7, <2>8
<1> QED
  BY <1>5, <1>6, <1>7

LEMMA AnnounceKeeps == ASSUME CPInv, NEW t \in Threads, Announce(t) PROVE CPInv'
<1>1. /\ at[t] = "announce"
      /\ epoch' = epoch + 1
      /\ letter' = [letter EXCEPT ![t] =
                      [to |-> observer, epoch |-> epoch + 1, says |-> active]]
      /\ at' = [at EXCEPT ![t] = "callback"]
      /\ UNCHANGED <<disk, startup, lock, call, value, active, observer, told, history>>
  BY DEF Announce, Goto
<1>2. Inside(t, "callback")
  BY <1>1 DEF Inside, Stages
<1>3. /\ StartupTypes' /\ CallTypes' /\ Locked'
      /\ Applied' <=> Applied
      /\ \A u \in Threads : at'[u] = IF u = t THEN "callback" ELSE "idle"
      /\ \A u \in Threads : u # t => at[u] = "idle"
  BY <1>2, InsideKeeps
<1>4. SwitchTypes' /\ Kept'
  BY <1>1, <1>3, SwitchesKept DEF Stages
<1>5. Hooked'
  BY <1>1 DEF CPInv, Hooked, startup
<1>6. /\ epoch \in Nat \ {0} /\ active \in BOOLEAN
      /\ observer \in Observers \cup {None}
      /\ letter \in [Threads \cup {"registrar"} -> Letter]
      /\ told \in [Observers -> Heard]
  BY DEF CPInv, Types, WatchTypes, SwitchTypes
<1>7. WatchTypes'
  <2>1. [to |-> observer, epoch |-> epoch + 1, says |-> active] \in Letter
    BY <1>6 DEF Letter
  <2> QED
    BY <1>1, <1>6, <2>1 DEF WatchTypes
<1>8. letter'[t] = [to |-> observer, epoch |-> epoch', says |-> active']
  BY <1>1, <1>6
<1>9. Current'
  <2>1. ASSUME NEW w \in Threads \cup {"registrar"}
        PROVE  /\ letter'[w].epoch <= epoch'
               /\ letter'[w].epoch = epoch' => letter'[w].says = active'
    <3>1. CASE w = t
      BY <1>1, <1>6, <1>8, <3>1
    <3>2. CASE w # t
      <4>1. letter'[w] = letter[w] /\ letter[w].epoch \in Nat
        BY <1>1, <1>6, <3>2 DEF Letter
      <4> QED
        BY <1>1, <1>6, <4>1 DEF CPInv, Current
    <3> QED
      BY <3>1, <3>2
  <2>2. ASSUME NEW o \in Observers
        PROVE  told'[o].epoch <= epoch' /\ told'[o].epoch # epoch'
    <3>1. told'[o] = told[o] /\ told[o].epoch \in Nat
      BY <1>1, <1>6 DEF Heard
    <3> QED
      BY <1>1, <1>6, <3>1 DEF CPInv, Current
  <2> QED
    BY <2>1, <2>2 DEF Current
<1>10. Reached'
  BY <1>1, <1>3, <1>8 DEF Reached, OnItsWay
<1> QED
  BY <1>3, <1>4, <1>5, <1>7, <1>9, <1>10 DEF CPInv, Types

LEMMA CallbackKeeps == ASSUME CPInv, NEW t \in Threads, Callback(t) PROVE CPInv'
<1>1. /\ at[t] = "callback" /\ Deliver(t)
      /\ at' = [at EXCEPT ![t] = "unlock"]
      /\ UNCHANGED <<disk, startup, lock, call, value, active, observer, epoch, history>>
  BY DEF Callback, Goto
<1>2. Inside(t, "unlock")
  BY <1>1 DEF Inside, Stages
<1>3. /\ StartupTypes' /\ CallTypes' /\ Locked'
      /\ Applied' <=> Applied
      /\ \A u \in Threads : at'[u] = IF u = t THEN "unlock" ELSE "idle"
      /\ \A u \in Threads : u # t => at[u] = "idle"
  BY <1>2, InsideKeeps
<1>4. SwitchTypes' /\ Kept'
  BY <1>1, <1>3, SwitchesKept DEF Stages
<1>5. Hooked'
  BY <1>1 DEF CPInv, Hooked, startup
<1>6. WatchTypes' /\ Current' /\ Reached'
  <2>1. Quiet /\ Quiet'
    BY <1>1, <1>3 DEF Quiet
  <2>2. \A u \in Threads \ {t} : at[u] = "callback" => at'[u] = "callback"
    BY <1>3
  <2> QED
    BY <1>1, <2>1, <2>2, DeliverKeeps
<1> QED
  BY <1>3, <1>4, <1>5, <1>6 DEF CPInv, Types

LEMMA EndCallKeeps == ASSUME CPInv, NEW t \in Threads, EndCall(t) PROVE CPInv'
<1>1. /\ at[t] = "unlock" /\ lock' = None
      /\ at' = [at EXCEPT ![t] = "idle"]
      /\ call' = [call EXCEPT ![t] = NoCall]
      /\ patch' = IF t = "patch" THEN "done" ELSE patch
      /\ UNCHANGED <<disk, installed, tried, ok, hooksReady, value, active, watching,
                     history>>
  BY DEF EndCall, Goto
<1>2. \A u \in Threads : at[u] = IF u = t THEN "unlock" ELSE "idle"
  BY <1>1, OneAtATime
<1>3. \A u \in Threads : at'[u] = "idle"
  BY <1>1, <1>2 DEF CPInv, Types, CallTypes
<1>4. "patch" \in Threads /\ None \notin Threads
  BY ControlPlaneAssumption DEF Threads
<1>5. t = "patch" => patch = "apply"
  BY <1>1 DEF CPInv, Locked
<1>6. Applied' <=> Applied
  BY <1>1, <1>2, <1>3, <1>4 DEF Applied
<1>7. StartupTypes'
  BY <1>1 DEF CPInv, Types, StartupTypes, Places
<1>8. CallTypes'
  BY <1>1 DEF CPInv, Types, CallTypes, Stages, NoCall, Switches
<1>9. WatchTypes'
  BY <1>1 DEF CPInv, Types, WatchTypes, watching
<1>10. SwitchTypes' /\ Kept'
  BY <1>1, <1>2, <1>6, SwitchesKept DEF Stages
<1>11. Hooked'
  BY <1>1, <1>5 DEF CPInv, Hooked
<1>12. Locked'
  BY <1>1, <1>3, <1>4 DEF Locked
<1>13. Current' /\ Reached'
  <2>1. Quiet /\ Quiet' /\ \A u \in Threads : at[u] # "callback"
    BY <1>2, <1>3 DEF Quiet
  <2> QED
    BY <1>1, <2>1 DEF CPInv, Current, Reached, OnItsWay, watching
<1> QED
  BY <1>7, <1>8, <1>9, <1>10, <1>11, <1>12, <1>13 DEF CPInv, Types

\* Once the hooks are in, the patch thread takes every value from its file.
LEMMA ApplyPersistedKeeps == CPInv /\ ApplyPersisted => CPInv'
<1> SUFFICES ASSUME CPInv, ApplyPersisted PROVE CPInv'
  OBVIOUS
<1>1. /\ patch = "apply" /\ at["patch"] = "idle" /\ lock = None /\ lock' = "patch"
      /\ value' = [s \in Switches |-> Loaded(s)]
      /\ active' = (Loaded("enabled") /\ hooksReady)
      /\ UNCHANGED <<disk, startup, call, watching, history>>
  BY DEF ApplyPersisted, Activate
<1>2. PICK where \in {"announce", "unlock"} :
        /\ at' = [at EXCEPT !["patch"] = where]
        /\ where = "unlock" => active' = active
  BY DEF ApplyPersisted, Activate, Goto
<1>3. "patch" \in Threads /\ None \notin Threads
  BY ControlPlaneAssumption DEF Threads
<1>4. /\ \A u \in Threads : at[u] = "idle"
      /\ \A u \in Threads : at'[u] = IF u = "patch" THEN where ELSE "idle"
  BY <1>1, <1>2, <1>3 DEF CPInv, Types, CallTypes, Locked
<1>5. StartupTypes'
  BY <1>1 DEF CPInv, Types, StartupTypes, startup
<1>6. CallTypes'
  BY <1>1, <1>2, <1>3 DEF CPInv, Types, CallTypes, Stages
<1>7. WatchTypes'
  BY <1>1 DEF CPInv, Types, WatchTypes, watching
<1>8. \A s \in Switches : Loaded(s) = TRUE \/ Loaded(s) = FALSE
  <2> SUFFICES ASSUME NEW s \in Switches PROVE Loaded(s) = TRUE \/ Loaded(s) = FALSE
    OBVIOUS
  <2>1. CASE disk[s] = "absent"
    BY <2>1 DEF Loaded
  <2>2. CASE disk[s] # "absent"
    BY <2>2 DEF Loaded
  <2> QED
    BY <2>1, <2>2
<1>9. active' \in BOOLEAN
  BY <1>1
<1>10. SwitchTypes'
  <2>1. \A s \in Switches : value'[s] = TRUE \/ value'[s] = FALSE
    BY <1>1, <1>8
  <2>2. value' \in [Switches -> BOOLEAN]
    BY <1>1, <2>1
  <2> QED
    BY <1>1, <1>9, <2>2 DEF CPInv, Types, SwitchTypes, history
<1>11. hooksReady = TRUE
  BY <1>1 DEF CPInv, Hooked, Types, StartupTypes
<1>12. Hooked'
  BY <1>1, <1>11 DEF CPInv, Hooked, startup
<1>13. Locked'
  BY <1>1, <1>2, <1>3, <1>4 DEF Locked, startup
<1>14. Kept'
  <2>1. \A u \in Threads, s \in Switches : ~Between(u, s)'
    BY <1>2, <1>4 DEF Between
  <2>2. \A s \in Switches : unsaved'[s] \/ Loaded(s)' = wanted'[s]
    BY <1>1 DEF CPInv, Kept, Loaded, history
  <2>3. \A s \in Switches : unsaved'[s] \/ value'[s] = wanted'[s]
    BY <1>1 DEF CPInv, Kept, history
  <2>4. active' = value'["enabled"]
    <3>1. value'["enabled"] = Loaded("enabled")
      BY <1>1 DEF Switches
    <3>2. Loaded("enabled") = TRUE \/ Loaded("enabled") = FALSE
      BY <1>8 DEF Switches
    <3> QED
      BY <1>1, <1>11, <3>1, <3>2
  <2> QED
    BY <2>1, <2>2, <2>3, <2>4 DEF Kept
<1>15. Current' /\ Reached'
  <2>1. Quiet /\ \A u \in Threads : at[u] # "callback"
    BY <1>4 DEF Quiet
  <2>2. Quiet' => active' = active
    BY <1>2, <1>3, <1>4 DEF Quiet
  <2> QED
    BY <1>1, <2>1, <2>2 DEF CPInv, Current, Reached, OnItsWay, watching
<1> QED
  BY <1>5, <1>6, <1>7, <1>10, <1>12, <1>13, <1>14, <1>15 DEF CPInv, Types

-----------------------------------------------------------------------------
\* A registration copies the epoch and the state under the observer lock, in
\* whatever stage of a change it falls.
LEMMA RegisterKeeps ==
    ASSUME CPInv, NEW o \in Observers \cup {None}, Register(o) PROVE CPInv'
<1> DEFINE W == Threads \cup {"registrar"}
<1>1. /\ observer' = o
      /\ letter' = [letter EXCEPT !["registrar"] =
                      [to |-> o, epoch |-> epoch, says |-> active]]
      /\ UNCHANGED <<disk, startup, control, epoch, told, history>>
  BY DEF Register
<1>2. letter \in [W -> Letter] /\ epoch \in Nat \ {0} /\ active \in BOOLEAN
  BY DEF CPInv, Types, WatchTypes, SwitchTypes
<1>3. [to |-> o, epoch |-> epoch, says |-> active] \in Letter
  BY <1>2 DEF Letter
<1>4. \A w \in W : letter'[w] = IF w = "registrar"
                               THEN [to |-> o, epoch |-> epoch, says |-> active]
                               ELSE letter[w]
  BY <1>1, <1>2
<1>5. Types'
  <2>1. WatchTypes'
    BY <1>1, <1>2, <1>3 DEF CPInv, Types, WatchTypes
  <2>2. StartupTypes' /\ CallTypes' /\ SwitchTypes'
    BY <1>1 DEF CPInv, Types, StartupTypes, CallTypes, SwitchTypes, startup, control,
                history
  <2> QED
    BY <2>1, <2>2 DEF Types
<1>6. Hooked' /\ Locked'
  BY <1>1 DEF CPInv, Hooked, Locked, startup, control
<1>7. Kept'
  BY <1>1 DEF CPInv, Kept, Applied, Between, Loaded, startup, control, history
<1>8. UNCHANGED <<active, epoch, told, at>> /\ (Quiet' <=> Quiet)
  BY <1>1 DEF Quiet, control
<1>9. Current'
  <2>1. \A w \in W : /\ letter'[w].epoch <= epoch
                     /\ Quiet /\ letter'[w].epoch = epoch => letter'[w].says = active
    BY <1>2, <1>4 DEF CPInv, Current
  <2> QED
    BY <1>8, <2>1 DEF CPInv, Current
<1>10. Reached'
  BY <1>1, <1>4 DEF Reached, OnItsWay
<1> QED
  BY <1>5, <1>6, <1>7, <1>9, <1>10 DEF CPInv

LEMMA TellRegisteredKeeps == CPInv /\ TellRegistered => CPInv'
<1> SUFFICES ASSUME CPInv, TellRegistered PROVE CPInv'
  OBVIOUS
<1>1. /\ Deliver("registrar")
      /\ UNCHANGED <<disk, startup, control, observer, epoch, history>>
  BY DEF TellRegistered
<1> USE DEF control
<1>2. WatchTypes' /\ Current' /\ Reached'
  BY <1>1, DeliverKeeps DEF Quiet
<1>3. StartupTypes' /\ CallTypes' /\ SwitchTypes'
  BY <1>1 DEF CPInv, Types, StartupTypes, CallTypes, SwitchTypes, startup, history
<1>4. Hooked' /\ Locked'
  BY <1>1 DEF CPInv, Hooked, Locked, startup
<1>5. Kept'
  BY <1>1 DEF CPInv, Kept, Applied, Between, Loaded, startup, history
<1> QED
  BY <1>2, <1>3, <1>4, <1>5 DEF CPInv, Types

-----------------------------------------------------------------------------
LEMMA StepKeeps == CPInv /\ [Next]_vars => CPInv'
<1> SUFFICES ASSUME CPInv, [Next]_vars PROVE CPInv'
  OBVIOUS
<1>1. CASE Die
  BY <1>1, DieKeeps
<1>2. CASE UiStep \/ GameAdvances
  BY <1>2, StartupKeeps DEF Startup
<1>3. CASE PatchStep
  <2>1. Startup \/ ApplyPersisted
    BY <1>3 DEF PatchStep, Startup
  <2> QED
    BY <2>1, StartupKeeps, ApplyPersistedKeeps
<1>4. CASE \E t \in Callers : BeginCall(t)
  BY <1>4, BeginCallKeeps
<1>5. CASE \E t \in Threads : CallStep(t)
  <2> PICK t \in Threads : CallStep(t)
    BY <1>5
  <2> QED
    BY OpenFileKeeps, WriteFileKeeps, SetSwitchKeeps, AnnounceKeeps, CallbackKeeps,
       EndCallKeeps DEF CallStep
<1>6. CASE \E o \in Observers \cup {None} : Register(o)
  BY <1>6, RegisterKeeps
<1>7. CASE TellRegistered
  BY <1>7, TellRegisteredKeeps
<1>8. CASE UNCHANGED vars
  <2> USE <1>8 DEF vars, startup, control, watching, history
  <2>1. Types' /\ Hooked' /\ Locked'
    BY DEF CPInv, Types, StartupTypes, CallTypes, SwitchTypes, WatchTypes, Hooked, Locked
  <2>2. Kept' /\ Current' /\ Reached'
    BY DEF CPInv, Kept, Applied, Between, Loaded, Current, Reached, Quiet, OnItsWay
  <2> QED
    BY <2>1, <2>2 DEF CPInv
<1> QED
  BY <1>1, <1>2, <1>3, <1>4, <1>5, <1>6, <1>7, <1>8 DEF Next

LEMMA InvariantHolds == Spec => []CPInv
BY Initially, StepKeeps, PTL DEF Spec

\* Whoever throws the master switch, and however the call falls between the
\* end of the hook installation and apply_persisted_control_state: g_enabled
\* is up only when every method hook that must be in place is.
THEOREM ActiveNeedsHooks == Spec => []ActiveOnlyWhenHooked
<1>1. CPInv => ActiveOnlyWhenHooked
  BY DEF CPInv, Hooked, ActiveOnlyWhenHooked
<1> QED
  BY <1>1, InvariantHolds, PTL

\* After startup and between control calls, every switch in memory is the last
\* request for it, made in this process or in one that died, unless its file
\* could not be written; and the active state is the requested one.
THEOREM LastRequestWins == Spec => []IntentRecovered
<1>1. CPInv => IntentRecovered
  <2> SUFFICES ASSUME CPInv, patch = "done", lock = None
               PROVE  /\ \A s \in Switches : unsaved[s] \/ value[s] = wanted[s]
                      /\ active = value["enabled"]
    BY DEF IntentRecovered
  <2>1. \A t \in Threads, s \in Switches : ~Between(t, s)
    BY ControlPlaneAssumption DEF CPInv, Locked, Between
  <2> QED
    BY <2>1 DEF CPInv, Kept, Applied
<1> QED
  BY <1>1, InvariantHolds, PTL

\* With no callback under way, the registered observer has heard the current
\* producer epoch with the current state, although registrations and changes
\* take g_raw_observer_lock in any order and call back outside it.
THEOREM ObserverIsCurrent == Spec => []ObserverSeesLatest
<1>1. CPInv => ObserverSeesLatest
  <2> SUFFICES ASSUME CPInv, observer # None, lock = None,
                      letter["registrar"] = NoLetter
               PROVE  told[observer] = [epoch |-> epoch, says |-> active]
    BY DEF ObserverSeesLatest
  <2>1. \A t \in Threads : at[t] = "idle"
    BY ControlPlaneAssumption DEF CPInv, Locked
  <2>2. epoch \in Nat \ {0} /\ observer \in Observers /\ told[observer] \in Heard
    BY DEF CPInv, Types, WatchTypes
  <2>3. ~OnItsWay("registrar")
    BY <2>2 DEF OnItsWay, NoLetter
  <2>4. told[observer].epoch = epoch
    BY <2>1, <2>3 DEF CPInv, Reached, Quiet
  <2>5. told[observer].says = active
    BY <2>1, <2>2, <2>4 DEF CPInv, Current, Quiet
  <2> QED
    BY <2>2, <2>4, <2>5 DEF Heard
<1> QED
  BY <1>1, InvariantHolds, PTL
=============================================================================
