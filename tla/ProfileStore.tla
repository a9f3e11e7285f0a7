----------------------------- MODULE ProfileStore ------------------------------
(* The store of VPN profiles: core/ProfileManager.java, with the calls the      *)
(* activities, the services and the API make of it.  A profile lives in a map   *)
(* in memory, in a file of its own, and in a list of names kept in shared       *)
(* preferences; the file is rewritten in place, the list reaches the disk some  *)
(* time after apply(), and the process may be killed between any two steps.     *)
(* The first call of a process loads everything, in whatever thread makes it.   *)
(* What is in a profile is left out: a file is whole, torn or not there.        *)
EXTENDS Naturals, Sequences

CONSTANTS
    UserProfiles,  \* profiles made by the activities
    ApiProfiles,   \* profiles made by addVPNProfile() of the API
    Threads,       \* "main" and binder threads
    NoInstance,
    LoadsOverlap   \* whether a call may meet the load of another thread

Profiles == UserProfiles \cup ApiProfiles

ASSUME ProfilesAssumption ==
    /\ UserProfiles \cap ApiProfiles = {}
    /\ Profiles # {}
    /\ "main" \in Threads
    /\ NoInstance \notin Threads
    /\ LoadsOverlap \in BOOLEAN

VARIABLES
    instance,  \* ProfileManager.instance, named by the thread that made it
    profiles,  \* the map of each such instance
    phase,     \* where each thread is in its call
    job,       \* what its call is for, and the step it has reached
    manager,   \* the instance its call works on
    left,      \* the names loadVPNList() has still to read
    file,      \* the file of each profile
    listed,    \* "vpnlist" as the process sees it
    disk       \* "vpnlist" as it is on the disk

storeVars == <<instance, profiles, phase, job, manager, left, file, listed, disk>>

--------------------------------------------------------------------------------
Loading == {"create", "fill", "load"}
Phases == Loading \cup {"idle", "check", "work"}

\* What the callers do with one profile, step by step.
ImportUnlisted == <<"add", "open", "write">>
Import == <<"add", "open", "write", "list">>
NewProfile == <<"add", "list", "open", "write">>
Rewrite == <<"open", "write">>
Remove == <<"forget", "list", "delete">>
ApiAdd == <<"add">>
Inspect == << >>

Steps == [import |-> Import, new |-> NewProfile, rewrite |-> Rewrite,
          remove |-> Remove, apiAdd |-> ApiAdd, inspect |-> Inspect, get |-> Inspect]
Kinds == {"import", "new", "rewrite", "remove", "apiAdd", "inspect", "get"}

\* Calls through getInstance(), which is synchronized; get() is not.
Synchronized(kind) == kind \notin {"rewrite", "get"}

Jobs == [kind : Kinds, on : Profiles, at : 1 .. 5]

StoreTypeOK ==
    /\ instance \in Threads \cup {NoInstance}
    /\ profiles \in [Threads -> SUBSET Profiles]
    /\ phase \in [Threads -> Phases]
    /\ job \in [Threads -> Jobs]
    /\ manager \in [Threads -> Threads]
    /\ left \in [Threads -> SUBSET Profiles]
    /\ file \in [Profiles -> {"none", "torn", "whole"}]
    /\ listed \subseteq Profiles
    /\ disk \subseteq Profiles

\* What a process begins with, before it uses the profiles.
NoProfiles == [t \in Threads |-> {}]
AllIdle == [t \in Threads |-> "idle"]
NoJobs == [t \in Threads |->
             [kind |-> "inspect", on |-> CHOOSE p \in Profiles : TRUE, at |-> 1]]
OwnManagers == [t \in Threads |-> t]

StoreInit ==
    /\ instance = NoInstance
    /\ profiles = NoProfiles
    /\ phase = AllIdle
    /\ job = NoJobs
    /\ manager = OwnManagers
    /\ left = NoProfiles
    /\ file = [p \in Profiles |-> "none"]
    /\ listed = {}
    /\ disk = {}

--------------------------------------------------------------------------------
Working(t, p) ==
    phase[t] # "idle" /\ job[t].on = p /\ job[t].kind \notin {"inspect", "get"}

\* A random UUID is one nothing knows of.
Unused(p) ==
    /\ \A t \in Threads : p \notin profiles[t] /\ ~Working(t, p)
    /\ file[p] = "none"
    /\ p \notin listed \cup disk

\* A profile is on the screen once the call that makes it is over.
Shown(p) ==
    /\ instance # NoInstance
    /\ p \in profiles[instance]
    /\ \A t \in Threads : ~Working(t, p)

\* Which calls are made: imports also arrive in the binder thread of the key
\* chain, everything else that writes files is started from the screen.
MayCall(t, kind, p) ==
    CASE kind = "import" -> p \in UserProfiles /\ Unused(p)
      [] kind = "new" -> t = "main" /\ p \in UserProfiles /\ Unused(p)
      [] kind \in {"rewrite", "remove"} -> t = "main" /\ Shown(p)
      [] kind = "apiAdd" -> t # "main" /\ p \in ApiProfiles /\ Unused(p)
      [] OTHER -> TRUE

Call(t, kind, p) ==
    /\ phase[t] = "idle"
    /\ MayCall(t, kind, p)
    /\ phase' = [phase EXCEPT ![t] = "check"]
    /\ job' = [job EXCEPT ![t] = [kind |-> kind, on |-> p, at |-> 1]]
    /\ UNCHANGED <<instance, profiles, manager, left, file, listed, disk>>

InstanceTakenFirst(t) ==
    /\ phase[t] = "check"
    /\ \A u \in Threads \ {t} : phase[u] \notin Loading
    /\ phase' = [phase EXCEPT ![t] = IF instance = NoInstance THEN "create" ELSE "work"]
    /\ manager' = [manager EXCEPT ![t] = instance]
    /\ UNCHANGED <<instance, profiles, job, left, file, listed, disk>>

\* checkInstance(): an instance that exists is taken as loaded.
CheckInstance(t) ==
    /\ phase[t] = "check"
    /\ \A u \in Threads \ {t} :
         phase[u] \in Loading =>
            LoadsOverlap /\ ~(Synchronized(job[t].kind) /\ Synchronized(job[u].kind))
    /\ phase' = [phase EXCEPT ![t] = IF instance = NoInstance THEN "create" ELSE "work"]
    /\ manager' = [manager EXCEPT ![t] = IF instance = NoInstance THEN @ ELSE instance]
    /\ UNCHANGED <<instance, profiles, job, left, file, listed, disk>>

Create(t) ==
    /\ phase[t] = "create"
    /\ phase' = [phase EXCEPT ![t] = "fill"]
    /\ instance' = t
    /\ UNCHANGED <<profiles, job, manager, left, file, listed, disk>>

\* loadVPNList() of the instance there is by now: an empty map, the names.
BeginLoad(t) ==
    /\ phase[t] = "fill"
    /\ phase' = [phase EXCEPT ![t] = "load"]
    /\ manager' = [manager EXCEPT ![t] = instance]
    /\ profiles' = [profiles EXCEPT ![instance] = {}]
    /\ left' = [left EXCEPT ![t] = listed]
    /\ UNCHANGED <<instance, job, file, listed, disk>>

LoadUntilTorn(t, p) ==
    /\ phase[t] = "load"
    /\ p \in left[t]
    /\ left' = [left EXCEPT ![t] = IF file[p] = "whole" THEN @ \ {p} ELSE {}]
    /\ profiles' =
         IF file[p] = "whole" THEN [profiles EXCEPT ![manager[t]] = @ \cup {p}] ELSE profiles
    /\ UNCHANGED <<instance, phase, job, manager, file, listed, disk>>

\* A file that is torn or missing is logged and skipped.
Load(t, p) ==
    /\ phase[t] = "load"
    /\ p \in left[t]
    /\ left' = [left EXCEPT ![t] = @ \ {p}]
    /\ profiles' =
         IF file[p] = "whole" THEN [profiles EXCEPT ![manager[t]] = @ \cup {p}] ELSE profiles
    /\ UNCHANGED <<instance, phase, job, manager, file, listed, disk>>

Loaded(t) ==
    /\ phase[t] = "load"
    /\ left[t] = {}
    /\ phase' = [phase EXCEPT ![t] = "work"]
    /\ manager' = [manager EXCEPT ![t] = instance]
    /\ UNCHANGED <<instance, profiles, job, left, file, listed, disk>>

--------------------------------------------------------------------------------
\* The next step of the call is s, and the call goes on after it.
At(t, s) ==
    /\ phase[t] = "work"
    /\ job[t].at \in DOMAIN Steps[job[t].kind]
    /\ Steps[job[t].kind][job[t].at] = s

Onward(t) ==
    /\ job' = [job EXCEPT ![t].at = @ + 1]
    /\ UNCHANGED <<instance, phase, manager, left, disk>>

\* addProfile()
Add(t) ==
    /\ At(t, "add")
    /\ Onward(t)
    /\ profiles' = [profiles EXCEPT ![manager[t]] = @ \cup {job[t].on}]
    /\ UNCHANGED <<file, listed>>

\* removeProfile(), up to saveProfileList()
Forget(t) ==
    /\ At(t, "forget")
    /\ Onward(t)
    /\ profiles' = [profiles EXCEPT ![manager[t]] = @ \ {job[t].on}]
    /\ UNCHANGED <<file, listed>>

\* saveProfile(): openFileOutput() empties the file ...
Open(t) ==
    /\ At(t, "open")
    /\ Onward(t)
    /\ file' = [file EXCEPT ![job[t].on] = "torn"]
    /\ UNCHANGED <<profiles, listed>>

\* ... which is whole again when it has been written and closed.
Write(t) ==
    /\ At(t, "write")
    /\ Onward(t)
    /\ file' = [file EXCEPT ![job[t].on] = "whole"]
    /\ UNCHANGED <<profiles, listed>>

\* saveProfileList(): apply() changes what the process sees at once.
SaveList(t) ==
    /\ At(t, "list")
    /\ Onward(t)
    /\ listed' = profiles[manager[t]]
    /\ UNCHANGED <<profiles, file>>

\* removeProfile(): deleteFile()
Delete(t) ==
    /\ At(t, "delete")
    /\ Onward(t)
    /\ file' = [file EXCEPT ![job[t].on] = "none"]
    /\ UNCHANGED <<profiles, listed>>

Return(t) ==
    /\ phase[t] = "work"
    /\ job[t].at \notin DOMAIN Steps[job[t].kind]
    /\ phase' = [phase EXCEPT ![t] = "idle"]
    /\ UNCHANGED <<instance, profiles, job, manager, left, file, listed, disk>>

\* The preferences reach the disk.
Commit ==
    /\ disk' = listed
    /\ UNCHANGED <<instance, profiles, phase, job, manager, left, file, listed>>

\* The process is killed, or crashes, and a new one begins with what is stored.
Kill ==
    /\ instance' = NoInstance
    /\ profiles' = NoProfiles
    /\ phase' = AllIdle
    /\ job' = NoJobs
    /\ manager' = OwnManagers
    /\ left' = NoProfiles
    /\ listed' = disk
    /\ UNCHANGED <<file, disk>>

ThreadStep(t) ==
    \/ \E kind \in Kinds, p \in Profiles : Call(t, kind, p)
    \/ CheckInstance(t)
    \/ Create(t)
    \/ BeginLoad(t)
    \/ \E p \in Profiles : Load(t, p)
    \/ Loaded(t)
    \/ Add(t)
    \/ Forget(t)
    \/ Open(t)
    \/ Write(t)
    \/ SaveList(t)
    \/ Delete(t)
    \/ Return(t)

StoreNext == (\E t \in Threads : ThreadStep(t)) \/ Commit \/ Kill

StoreSpec == StoreInit /\ [][StoreNext]_storeVars

--------------------------------------------------------------------------------
Stored(p) == p \in disk /\ file[p] = "whole"

\* A profile that is on the disk, listed and whole, stays so through kills,
\* restarts, loads that meet broken files and lists saved by any thread: only
\* the call that rewrites it or removes it ends that (saveProfile,
\* removeProfile, loadVPNList and saveProfileList of ProfileManager).
StoredIsKept ==
    [][\A p \in Profiles :
         Stored(p) /\ ~Stored(p)' =>
            \E t \in Threads : Working(t, p) /\ job[t].kind \in {"rewrite", "remove"}]_storeVars

\* Between calls the profiles the app shows are those a new process would load
\* once the preferences are written, but for those an API client added, which
\* addVPNProfile() does not save (ProfileManager.loadVPNList, addProfile and
\* removeProfile; ExternalOpenVPNService.addVPNProfile).
ShownIsSaved ==
    instance # NoInstance /\ (\A t \in Threads : phase[t] = "idle") =>
        \A p \in UserProfiles :
            p \in profiles[instance] <=> p \in listed /\ file[p] = "whole"
================================================================================
