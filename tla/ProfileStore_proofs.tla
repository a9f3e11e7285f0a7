-------------------------- MODULE ProfileStore_proofs --------------------------
(* Theorems about ProfileStore where the first call of a process is not         *)
(* overlapped (LoadsOverlap FALSE), for any profiles and any threads.           *)
EXTENDS ProfileStore, TLAPS

\* One thread at a time makes and fills the instance; the others wait, and all
\* work on the instance there is.
Linked ==
    /\ \A t, u \in Threads : phase[t] \in Loading /\ t # u => phase[u] \in {"idle", "check"}
    /\ instance = NoInstance =>
         \A t \in Threads : phase[t] \in {"idle", "check", "create"} /\ profiles[t] = {}
    /\ \A t \in Threads :
         /\ phase[t] = "create" => instance = NoInstance
         /\ phase[t] \in {"work", "load"} => manager[t] = instance
         /\ phase[t] = "fill" => profiles[instance] = {}
         /\ phase[t] = "load" => left[t] \subseteq listed
         /\ phase[t] # "work" /\ phase[t] # "idle" => job[t].at = 1

\* No two calls work on one profile.
Alone == \A t, u \in Threads, p \in Profiles : Working(t, p) /\ Working(u, p) => t = u

Removing(t, p) == Working(t, p) /\ job[t].kind = "remove" /\ job[t].at > 1

\* How far a call that works on a profile has brought it.
Progress(t, p) ==
    /\ job[t].kind \in {"import", "new", "apiAdd"} /\ job[t].at = 1 =>
         /\ p \notin listed \cup disk
         /\ instance # NoInstance => p \notin profiles[instance]
    /\ job[t].kind = "import" =>
         /\ p \in UserProfiles
         /\ job[t].at < 4 => file[p] # "whole"
         /\ job[t].at > 1 => p \in profiles[instance]
         /\ job[t].at > 3 => file[p] = "whole"
         /\ job[t].at > 4 => p \in listed
    /\ job[t].kind = "new" =>
         /\ p \in UserProfiles
         /\ job[t].at < 5 => file[p] # "whole"
         /\ job[t].at > 1 => p \in profiles[instance]
         /\ job[t].at > 2 => p \in listed
         /\ job[t].at > 4 => file[p] = "whole"
    /\ job[t].kind = "rewrite" =>
         /\ instance # NoInstance
         /\ p \in profiles[instance]
         /\ p \in UserProfiles => p \in listed
         /\ p \in UserProfiles /\ job[t].at # 2 => file[p] = "whole"
    /\ job[t].kind = "remove" =>
         /\ instance # NoInstance
         /\ job[t].at > 1 => p \notin profiles[instance]
         /\ job[t].at > 2 => p \notin listed
         /\ job[t].at > 3 => file[p] = "none"
    /\ job[t].kind = "apiAdd" => p \in ApiProfiles

InProgress == \A t \in Threads, p \in Profiles : Working(t, p) => Progress(t, p)

\* What is stored is in the map, or about to be read, or being removed ...
Remembered ==
    instance # NoInstance /\ (\A t \in Threads : phase[t] # "fill") =>
        \A p \in Profiles :
            p \in listed /\ file[p] = "whole" =>
                \/ p \in profiles[instance]
                \/ \E t \in Threads : phase[t] = "load" /\ p \in left[t]
                \/ \E t \in Threads : Removing(t, p)

\* ... what the activities made and is in the map is stored ...
Saved ==
    instance # NoInstance =>
        \A p \in UserProfiles :
            p \in profiles[instance] =>
                \/ p \in listed /\ file[p] = "whole"
                \/ \E t \in Threads : Working(t, p)

\* ... no list is saved without what is in the map ...
Older ==
    instance # NoInstance => \A p \in profiles[instance] : p \in disk => p \in listed

\* ... and what is on the disk is in the list the process works with.
OnDisk ==
    \A p \in Profiles :
        Stored(p) => p \in listed \/ \E t \in Threads : Removing(t, p)

StoreInv ==
    StoreTypeOK /\ Linked /\ Alone /\ InProgress /\ Remembered /\ Saved
    /\ Older /\ OnDisk

--------------------------------------------------------------------------------
\* Which step of which call is which.
LEMMA StepAt ==
    ASSUME StoreTypeOK, NEW t \in Threads
    PROVE  /\ At(t, "add") => job[t].at = 1 /\ job[t].kind \in {"import", "new", "apiAdd"}
           /\ At(t, "forget") => job[t].at = 1 /\ job[t].kind = "remove"
           /\ At(t, "open") => \/ job[t].kind = "import" /\ job[t].at = 2
                               \/ job[t].kind = "new" /\ job[t].at = 3
                               \/ job[t].kind = "rewrite" /\ job[t].at = 1
           /\ At(t, "write") => \/ job[t].kind = "import" /\ job[t].at = 3
                                \/ job[t].kind = "new" /\ job[t].at = 4
                                \/ job[t].kind = "rewrite" /\ job[t].at = 2
           /\ At(t, "list") => \/ job[t].kind = "import" /\ job[t].at = 4
                               \/ job[t].kind = "new" /\ job[t].at = 2
                               \/ job[t].kind = "remove" /\ job[t].at = 2
           /\ At(t, "delete") => job[t].at = 3 /\ job[t].kind = "remove"
           /\ job[t].at \notin DOMAIN Steps[job[t].kind] =>
                /\ job[t].kind \in {"import", "new"} => job[t].at = 5
                /\ job[t].kind = "rewrite" => job[t].at > 2
                /\ job[t].kind = "remove" => job[t].at > 3
<1>1. /\ job[t].kind \in Kinds
      /\ job[t].at \in 1 .. 5
    BY DEF StoreTypeOK, Jobs
<1>2. /\ Steps["import"] = Import
      /\ Steps["new"] = NewProfile
      /\ Steps["rewrite"] = Rewrite
      /\ Steps["remove"] = Remove
      /\ Steps["apiAdd"] = ApiAdd
      /\ Steps["inspect"] = Inspect
      /\ Steps["get"] = Inspect
    BY DEF Steps
<1>3. CASE job[t].kind = "import"
    BY <1>1, <1>2, <1>3 DEF At, Import
<1>4. CASE job[t].kind = "new"
    BY <1>1, <1>2, <1>4 DEF At, NewProfile
<1>5. CASE job[t].kind = "rewrite"
    BY <1>1, <1>2, <1>5 DEF At, Rewrite
<1>6. CASE job[t].kind = "remove"
    BY <1>1, <1>2, <1>6 DEF At, Remove
<1>7. CASE job[t].kind = "apiAdd"
    BY <1>1, <1>2, <1>7 DEF At, ApiAdd
<1>8. CASE job[t].kind \in {"inspect", "get"}
    BY <1>1, <1>2, <1>8 DEF At, Inspect
<1> QED
    BY <1>1, <1>3, <1>4, <1>5, <1>6, <1>7, <1>8 DEF Kinds

\* A step of a call leaves the calls as they are but for its own progress, and
\* finds the instance made and filled.
LEMMA Stepping ==
    ASSUME StoreInv, NEW t \in Threads, NEW s, At(t, s), Onward(t)
    PROVE  /\ job[t].at \in 1 .. 4
           /\ instance \in Threads /\ manager[t] = instance
           /\ \A u \in Threads : phase[u] \notin Loading
           /\ job' \in [Threads -> Jobs]
           /\ job'[t] = [kind |-> job[t].kind, on |-> job[t].on, at |-> job[t].at + 1]
           /\ \A u \in Threads \ {t} : job'[u] = job[u]
           /\ \A u \in Threads : \A p : Working(u, p)' <=> Working(u, p)
           /\ \A u \in Threads : \A p : Removing(u, p) => Removing(u, p)'
           /\ \A u \in Threads \ {t} : \A p : Removing(u, p)' => Removing(u, p)
<1> USE DEF Onward
<1>1. phase[t] = "work"
    BY DEF At
<1>2. job[t] \in Jobs /\ job \in [Threads -> Jobs]
    BY DEF StoreInv, StoreTypeOK
<1>3. job[t].at \in 1 .. 4
    <2>1. /\ Len(Steps["import"]) = 4 /\ Len(Steps["new"]) = 4 /\ Len(Steps["rewrite"]) = 2
          /\ Len(Steps["remove"]) = 3 /\ Len(Steps["apiAdd"]) = 1
          /\ Len(Steps["inspect"]) = 0 /\ Len(Steps["get"]) = 0
        BY DEF Steps, Import, NewProfile, Rewrite, Remove, ApiAdd, Inspect
    <2>2. \A k \in Kinds : DOMAIN Steps[k] \subseteq 1 .. 4
        BY DEF Kinds, Steps, Import, NewProfile, Rewrite, Remove, ApiAdd, Inspect
    <2> QED
        BY <1>2, <2>2 DEF At, Jobs
<1>4. instance \in Threads /\ manager[t] = instance
    BY <1>1 DEF StoreInv, StoreTypeOK, Linked
<1>5. \A u \in Threads : phase[u] \notin Loading
    BY <1>1 DEF StoreInv, Linked, Loading
<1>6. /\ job' \in [Threads -> Jobs]
      /\ job'[t] = [kind |-> job[t].kind, on |-> job[t].on, at |-> job[t].at + 1]
      /\ \A u \in Threads \ {t} : job'[u] = job[u]
    BY <1>2, <1>3 DEF Jobs
<1>7. \A u \in Threads : \A p : Working(u, p)' <=> Working(u, p)
  <2>1. \A u \in Threads : job'[u].kind = job[u].kind /\ job'[u].on = job[u].on
      BY ZenonT(30), <1>6
  <2>2. phase' = phase
      OBVIOUS
  <2> QED
      BY <2>1, <2>2 DEF Working
<1>8. \A u \in Threads : \A p : Removing(u, p) => Removing(u, p)'
  <2>1. \A u \in Threads : job'[u].kind = job[u].kind
      BY <1>6
  <2>2. \A u \in Threads : job[u].at > 1 => job'[u].at > 1
      BY <1>3, <1>6
  <2> QED
      BY <1>7, <2>1, <2>2 DEF Removing
<1>9. \A u \in Threads \ {t} : \A p : Removing(u, p)' => Removing(u, p)
    BY <1>6, <1>7 DEF Removing
<1> QED
    BY <1>3, <1>4, <1>5, <1>6, <1>7, <1>8, <1>9

\* The steps of the calls, one lemma each.
LEMMA StepKeepsCalls ==
    ASSUME StoreInv, NEW t \in Threads, NEW s, At(t, s), Onward(t)
    PROVE  /\ Alone'
           /\ \A u \in Threads : phase[u] # "work" /\ phase[u] # "idle" => job'[u].at = 1
<1>1. Alone'
    BY Stepping DEF StoreInv, Alone
<1>2. \A u \in Threads : phase[u] # "work" /\ phase[u] # "idle" => job'[u].at = 1
    BY ZenonT(30), Stepping DEF StoreInv, Linked, At
<1> QED
    BY <1>1, <1>2

LEMMA AddKeepsInv == ASSUME StoreInv, NEW t \in Threads, Add(t) PROVE StoreInv'
<1> DEFINE q == job[t].on
<1>1. At(t, "add") /\ Onward(t)
    BY DEF Add
<1>2. StoreTypeOK /\ Linked /\ Alone /\ InProgress /\ Remembered /\ Saved
      /\ Older /\ OnDisk
    BY DEF StoreInv
<1>3. job[t].at = 1 /\ job[t].kind \in {"import", "new", "apiAdd"}
    BY <1>1, <1>2, StepAt
<1>4. q \in Profiles /\ Working(t, q) /\ Progress(t, q)
    BY <1>1, <1>2, <1>3 DEF StoreTypeOK, Jobs, At, Working, InProgress
<1>5. /\ instance \in Threads /\ manager[t] = instance
      /\ \A u \in Threads : phase[u] \notin {"create", "fill", "load"}
      /\ job' \in [Threads -> Jobs]
      /\ job'[t] = [kind |-> job[t].kind, on |-> q, at |-> job[t].at + 1]
      /\ \A u \in Threads \ {t} : job'[u] = job[u]
    BY <1>1, Stepping DEF Loading
<1>6. /\ \A u \in Threads : \A p : Working(u, p)' <=> Working(u, p)
      /\ \A u \in Threads : \A p : Removing(u, p) => Removing(u, p)'
      /\ \A u \in Threads \ {t} : \A p : Removing(u, p)' => Removing(u, p)
    BY <1>1, Stepping
<1>7. UNCHANGED <<instance, phase, manager, left, disk>>
    BY <1>1 DEF Onward
<1>8. profiles' = [profiles EXCEPT ![instance] = @ \cup {q}] /\ file' = file /\ listed' = listed
    BY <1>5 DEF Add
<1>9. \A u \in Threads, p \in Profiles : Working(u, p) /\ u # t => p # q
    BY <1>2, <1>4 DEF Alone
<1>10. \A p \in Profiles : p \in listed /\ file[p] = "whole" =>
          p \in profiles[instance] \/ \E u \in Threads : Removing(u, p)
  <2>1. instance # NoInstance
      BY <1>5, ProfilesAssumption
  <2> QED
      BY <1>2, <1>5, <2>1 DEF Remembered
<1>11. StoreTypeOK'
    BY <1>2, <1>4, <1>5, <1>7, <1>8 DEF StoreTypeOK
<1>12. Linked'
  <2>1. \A u \in Threads : phase[u] # "work" /\ phase[u] # "idle" => job'[u].at = 1
      BY <1>1, StepKeepsCalls
  <2> QED
      BY <1>2, <1>4, <1>5, <1>7, <1>8, <2>1, ProfilesAssumption
         DEF Linked, StoreTypeOK, Loading
<1>13. Alone'
    BY <1>1, StepKeepsCalls
<1>14. InProgress'
  <2> SUFFICES ASSUME NEW u \in Threads, NEW p \in Profiles, Working(u, p)'
               PROVE  Progress(u, p)'
      BY DEF InProgress
  <2>1. Working(u, p) /\ Progress(u, p)
      BY <1>2, <1>6 DEF InProgress
  <2>2. job[u] \in Jobs /\ job[u].at \in 1 .. 5
      BY <1>2 DEF StoreTypeOK, Jobs
  <2>3. CASE u = t
    <3>1. p = q
        BY <2>1, <2>3 DEF Working
    <3> QED
        BY <1>2, <1>3, <1>4, <1>5, <1>7, <1>8, <2>3, <3>1 DEF Progress, StoreTypeOK
  <2>4. CASE u # t
    <3>1. p # q /\ job'[u] = job[u]
        BY <1>5, <1>9, <2>1, <2>4
    <3> QED
        BY <1>2, <1>3, <1>4, <1>5, <1>7, <1>8, <2>1, <2>2, <3>1, ProfilesAssumption
           DEF Progress, StoreTypeOK
  <2> QED
      BY <2>3, <2>4
<1>15. Remembered'
  <2>1. ASSUME NEW p \in Profiles, (p \in listed /\ file[p] = "whole")'
        PROVE  (p \in profiles[instance])' \/ \E u \in Threads : Removing(u, p)'
      BY <1>2, <1>4, <1>5, <1>6, <1>7, <1>8, <1>10, <2>1 DEF StoreTypeOK
  <2> QED
      BY <2>1 DEF Remembered
<1>16. Saved'
  <2>1. ASSUME NEW p \in UserProfiles, (p \in profiles[instance])'
        PROVE  (p \in listed /\ file[p] = "whole")' \/ \E u \in Threads : Working(u, p)'
    <3>1. p \in Profiles /\ instance # NoInstance
        BY <1>5, ProfilesAssumption DEF Profiles
    <3>2. CASE p = q
        BY <1>4, <1>6, <3>2
    <3>3. CASE p # q
      <4>1. p \in profiles[instance]
          BY <1>2, <1>4, <1>5, <1>7, <1>8, <2>1, <3>1, <3>3 DEF StoreTypeOK
      <4>2. (p \in listed /\ file[p] = "whole") \/ \E u \in Threads : Working(u, p)
          BY <1>2, <3>1, <4>1 DEF Saved
      <4> QED
          BY <1>2, <1>4, <1>5, <1>6, <1>7, <1>8, <3>1, <3>3, <4>1, <4>2 DEF StoreTypeOK
    <3> QED
        BY <3>2, <3>3
  <2> QED
      BY <2>1 DEF Saved
<1>17. Older'
  <2>1. instance # NoInstance
      BY <1>5, ProfilesAssumption
  <2> QED
      BY <1>2, <1>3, <1>4, <1>5, <1>7, <1>8, <2>1 DEF Older, Progress, StoreTypeOK
<1>18. OnDisk'
  <2>1. ASSUME NEW p \in Profiles, Stored(p)'
        PROVE  p \in listed' \/ \E u \in Threads : Removing(u, p)'
      BY <1>2, <1>4, <1>5, <1>6, <1>7, <1>8, <1>10, <2>1 DEF OnDisk, Stored, StoreTypeOK
  <2> QED
      BY <2>1 DEF OnDisk
<1> QED
    BY <1>11, <1>12, <1>13, <1>14, <1>15, <1>16, <1>17, <1>18 DEF StoreInv

LEMMA ForgetKeepsInv == ASSUME StoreInv, NEW t \in Threads, Forget(t) PROVE StoreInv'
<1> DEFINE q == job[t].on
<1>1. At(t, "forget") /\ Onward(t)
    BY DEF Forget
<1>2. StoreTypeOK /\ Linked /\ Alone /\ InProgress /\ Remembered /\ Saved
      /\ Older /\ OnDisk
    BY DEF StoreInv
<1>3. job[t].at = 1 /\ job[t].kind = "remove"
    BY <1>1, <1>2, StepAt
<1>4. q \in Profiles /\ Working(t, q) /\ Progress(t, q)
    BY <1>1, <1>2, <1>3 DEF StoreTypeOK, Jobs, At, Working, InProgress
<1>5. /\ instance \in Threads /\ manager[t] = instance
      /\ \A u \in Threads : phase[u] \notin {"create", "fill", "load"}
      /\ job' \in [Threads -> Jobs]
      /\ job'[t] = [kind |-> job[t].kind, on |-> q, at |-> job[t].at + 1]
      /\ \A u \in Threads \ {t} : job'[u] = job[u]
    BY <1>1, Stepping DEF Loading
<1>6. /\ \A u \in Threads : \A p : Working(u, p)' <=> Working(u, p)
      /\ \A u \in Threads : \A p : Removing(u, p) => Removing(u, p)'
      /\ \A u \in Threads \ {t} : \A p : Removing(u, p)' => Removing(u, p)
    BY <1>1, Stepping
<1>7. UNCHANGED <<instance, phase, manager, left, disk>>
    BY <1>1 DEF Onward
<1>8. profiles' = [profiles EXCEPT ![instance] = @ \ {q}] /\ file' = file /\ listed' = listed
    BY <1>5 DEF Forget
<1>9. \A u \in Threads, p \in Profiles : Working(u, p) /\ u # t => p # q
    BY <1>2, <1>4 DEF Alone
<1>10. \A p \in Profiles : p \in listed /\ file[p] = "whole" =>
          p \in profiles[instance] \/ \E u \in Threads : Removing(u, p)
  <2>1. instance # NoInstance
      BY <1>5, ProfilesAssumption
  <2> QED
      BY <1>2, <1>5, <2>1 DEF Remembered
<1>11. StoreTypeOK'
    BY <1>2, <1>4, <1>5, <1>7, <1>8 DEF StoreTypeOK
<1>12. Linked'
  <2>1. \A u \in Threads : phase[u] # "work" /\ phase[u] # "idle" => job'[u].at = 1
      BY <1>1, StepKeepsCalls
  <2> QED
      BY <1>2, <1>4, <1>5, <1>7, <1>8, <2>1, ProfilesAssumption
         DEF Linked, StoreTypeOK, Loading
<1>13. Alone'
    BY <1>1, StepKeepsCalls
<1>14. InProgress'
  <2> SUFFICES ASSUME NEW u \in Threads, NEW p \in Profiles, Working(u, p)'
               PROVE  Progress(u, p)'
      BY DEF InProgress
  <2>1. Working(u, p) /\ Progress(u, p)
      BY <1>2, <1>6 DEF InProgress
  <2>2. job[u] \in Jobs /\ job[u].at \in 1 .. 5
      BY <1>2 DEF StoreTypeOK, Jobs
  <2>3. CASE u = t
    <3>1. p = q
        BY <2>1, <2>3 DEF Working
    <3> QED
        BY <1>2, <1>3, <1>4, <1>5, <1>7, <1>8, <2>3, <3>1 DEF Progress, StoreTypeOK
  <2>4. CASE u # t
    <3>1. p # q /\ job'[u] = job[u]
        BY <1>5, <1>9, <2>1, <2>4
    <3> QED
        BY <1>2, <1>3, <1>4, <1>5, <1>7, <1>8, <2>1, <2>2, <3>1, ProfilesAssumption
           DEF Progress, StoreTypeOK
  <2> QED
      BY <2>3, <2>4
<1>15. Remembered'
  <2>1. ASSUME NEW p \in Profiles, (p \in listed /\ file[p] = "whole")'
        PROVE  (p \in profiles[instance])' \/ \E u \in Threads : Removing(u, p)'
    <3>1. CASE p # q
        BY <1>2, <1>4, <1>5, <1>6, <1>7, <1>8, <1>10, <2>1, <3>1 DEF StoreTypeOK
    <3>2. CASE p = q
        BY <1>3, <1>4, <1>5, <1>6, <3>2 DEF Removing
    <3> QED
        BY <3>1, <3>2
  <2> QED
      BY <2>1 DEF Remembered
<1>16. Saved'
  <2>1. ASSUME NEW p \in UserProfiles, (p \in profiles[instance])'
        PROVE  (p \in listed /\ file[p] = "whole")' \/ \E u \in Threads : Working(u, p)'
    <3>1. p \in Profiles /\ instance # NoInstance
        BY <1>5, ProfilesAssumption DEF Profiles
    <3>2. CASE p = q
        BY <1>4, <1>6, <3>2
    <3>3. CASE p # q
      <4>1. p \in profiles[instance]
          BY <1>2, <1>4, <1>5, <1>7, <1>8, <2>1, <3>1, <3>3 DEF StoreTypeOK
      <4>2. (p \in listed /\ file[p] = "whole") \/ \E u \in Threads : Working(u, p)
          BY <1>2, <3>1, <4>1 DEF Saved
      <4> QED
          BY <1>2, <1>4, <1>5, <1>6, <1>7, <1>8, <3>1, <3>3, <4>1, <4>2 DEF StoreTypeOK
    <3> QED
        BY <3>2, <3>3
  <2> QED
      BY <2>1 DEF Saved
<1>17. Older'
  <2>1. instance # NoInstance
      BY <1>5, ProfilesAssumption
  <2> QED
      BY <1>2, <1>3, <1>4, <1>5, <1>7, <1>8, <2>1 DEF Older, Progress, StoreTypeOK
<1>18. OnDisk'
  <2>1. ASSUME NEW p \in Profiles, Stored(p)'
        PROVE  p \in listed' \/ \E u \in Threads : Removing(u, p)'
      BY <1>2, <1>4, <1>5, <1>6, <1>7, <1>8, <1>10, <2>1 DEF OnDisk, Stored, StoreTypeOK
  <2> QED
      BY <2>1 DEF OnDisk
<1> QED
    BY <1>11, <1>12, <1>13, <1>14, <1>15, <1>16, <1>17, <1>18 DEF StoreInv

LEMMA OpenKeepsInv == ASSUME StoreInv, NEW t \in Threads, Open(t) PROVE StoreInv'
<1> DEFINE q == job[t].on
<1>1. At(t, "open") /\ Onward(t)
    BY DEF Open
<1>2. StoreTypeOK /\ Linked /\ Alone /\ InProgress /\ Remembered /\ Saved
      /\ Older /\ OnDisk
    BY DEF StoreInv
<1>3. \/ job[t].kind = "import" /\ job[t].at = 2
      \/ job[t].kind = "new" /\ job[t].at = 3
      \/ job[t].kind = "rewrite" /\ job[t].at = 1
    BY <1>1, <1>2, StepAt
<1>4. q \in Profiles /\ Working(t, q) /\ Progress(t, q)
    BY <1>1, <1>2, <1>3 DEF StoreTypeOK, Jobs, At, Working, InProgress
<1>5. /\ instance \in Threads /\ manager[t] = instance
      /\ \A u \in Threads : phase[u] \notin {"create", "fill", "load"}
      /\ job' \in [Threads -> Jobs]
      /\ job'[t] = [kind |-> job[t].kind, on |-> q, at |-> job[t].at + 1]
      /\ \A u \in Threads \ {t} : job'[u] = job[u]
    BY <1>1, Stepping DEF Loading
<1>6. /\ \A u \in Threads : \A p : Working(u, p)' <=> Working(u, p)
      /\ \A u \in Threads : \A p : Removing(u, p) => Removing(u, p)'
      /\ \A u \in Threads \ {t} : \A p : Removing(u, p)' => Removing(u, p)
    BY <1>1, Stepping
<1>7. UNCHANGED <<instance, phase, manager, left, disk>>
    BY <1>1 DEF Onward
<1>8. file' = [file EXCEPT ![q] = "torn"] /\ profiles' = profiles /\ listed' = listed
    BY <1>5 DEF Open
<1>9. \A u \in Threads, p \in Profiles : Working(u, p) /\ u # t => p # q
    BY <1>2, <1>4 DEF Alone
<1>10. \A p \in Profiles : p \in listed /\ file[p] = "whole" =>
          p \in profiles[instance] \/ \E u \in Threads : Removing(u, p)
  <2>1. instance # NoInstance
      BY <1>5, ProfilesAssumption
  <2> QED
      BY <1>2, <1>5, <2>1 DEF Remembered
<1>11. StoreTypeOK'
    BY <1>2, <1>4, <1>5, <1>7, <1>8 DEF StoreTypeOK
<1>12. Linked'
  <2>1. \A u \in Threads : phase[u] # "work" /\ phase[u] # "idle" => job'[u].at = 1
      BY <1>1, StepKeepsCalls
  <2> QED
      BY <1>2, <1>4, <1>5, <1>7, <1>8, <2>1, ProfilesAssumption
         DEF Linked, StoreTypeOK, Loading
<1>13. Alone'
    BY <1>1, StepKeepsCalls
<1>14. InProgress'
  <2> SUFFICES ASSUME NEW u \in Threads, NEW p \in Profiles, Working(u, p)'
               PROVE  Progress(u, p)'
      BY DEF InProgress
  <2>1. Working(u, p) /\ Progress(u, p)
      BY <1>2, <1>6 DEF InProgress
  <2>2. job[u] \in Jobs /\ job[u].at \in 1 .. 5
      BY <1>2 DEF StoreTypeOK, Jobs
  <2>3. CASE u = t
    <3>1. p = q
        BY <2>1, <2>3 DEF Working
    <3> QED
        BY <1>2, <1>3, <1>4, <1>5, <1>7, <1>8, <2>3, <3>1 DEF Progress, StoreTypeOK
  <2>4. CASE u # t
    <3>1. p # q /\ job'[u] = job[u]
        BY <1>5, <1>9, <2>1, <2>4
    <3> QED
        BY <1>2, <1>3, <1>4, <1>5, <1>7, <1>8, <2>1, <2>2, <3>1, ProfilesAssumption
           DEF Progress, StoreTypeOK
  <2> QED
      BY <2>3, <2>4
<1>15. Remembered'
  <2>1. ASSUME NEW p \in Profiles, (p \in listed /\ file[p] = "whole")'
        PROVE  (p \in profiles[instance])' \/ \E u \in Threads : Removing(u, p)'
      BY <1>2, <1>4, <1>5, <1>6, <1>7, <1>8, <1>10, <2>1 DEF StoreTypeOK
  <2> QED
      BY <2>1 DEF Remembered
<1>16. Saved'
  <2>1. ASSUME NEW p \in UserProfiles, (p \in profiles[instance])'
        PROVE  (p \in listed /\ file[p] = "whole")' \/ \E u \in Threads : Working(u, p)'
    <3>1. p \in Profiles /\ instance # NoInstance
        BY <1>5, ProfilesAssumption DEF Profiles
    <3>2. CASE p = q
        BY <1>4, <1>6, <3>2
    <3>3. CASE p # q
      <4>1. p \in profiles[instance]
          BY <1>2, <1>4, <1>5, <1>7, <1>8, <2>1, <3>1, <3>3 DEF StoreTypeOK
      <4>2. (p \in listed /\ file[p] = "whole") \/ \E u \in Threads : Working(u, p)
          BY <1>2, <3>1, <4>1 DEF Saved
      <4> QED
          BY <1>2, <1>4, <1>5, <1>6, <1>7, <1>8, <3>1, <3>3, <4>1, <4>2 DEF StoreTypeOK
    <3> QED
        BY <3>2, <3>3
  <2> QED
      BY <2>1 DEF Saved
<1>17. Older'
  <2>1. instance # NoInstance
      BY <1>5, ProfilesAssumption
  <2> QED
      BY <1>2, <1>3, <1>4, <1>5, <1>7, <1>8, <2>1 DEF Older, Progress, StoreTypeOK
<1>18. OnDisk'
  <2>1. ASSUME NEW p \in Profiles, Stored(p)'
        PROVE  p \in listed' \/ \E u \in Threads : Removing(u, p)'
      BY <1>2, <1>4, <1>5, <1>6, <1>7, <1>8, <1>10, <2>1 DEF OnDisk, Stored, StoreTypeOK
  <2> QED
      BY <2>1 DEF OnDisk
<1> QED
    BY <1>11, <1>12, <1>13, <1>14, <1>15, <1>16, <1>17, <1>18 DEF StoreInv

LEMMA WriteKeepsInv == ASSUME StoreInv, NEW t \in Threads, Write(t) PROVE StoreInv'
<1> DEFINE q == job[t].on
<1>1. At(t, "write") /\ Onward(t)
    BY DEF Write
<1>2. StoreTypeOK /\ Linked /\ Alone /\ InProgress /\ Remembered /\ Saved
      /\ Older /\ OnDisk
    BY DEF StoreInv
<1>3. \/ job[t].kind = "import" /\ job[t].at = 3
      \/ job[t].kind = "new" /\ job[t].at = 4
      \/ job[t].kind = "rewrite" /\ job[t].at = 2
    BY <1>1, <1>2, StepAt
<1>4. q \in Profiles /\ Working(t, q) /\ Progress(t, q)
    BY <1>1, <1>2, <1>3 DEF StoreTypeOK, Jobs, At, Working, InProgress
<1>5. /\ instance \in Threads /\ manager[t] = instance
      /\ \A u \in Threads : phase[u] \notin {"create", "fill", "load"}
      /\ job' \in [Threads -> Jobs]
      /\ job'[t] = [kind |-> job[t].kind, on |-> q, at |-> job[t].at + 1]
      /\ \A u \in Threads \ {t} : job'[u] = job[u]
    BY <1>1, Stepping DEF Loading
<1>6. /\ \A u \in Threads : \A p : Working(u, p)' <=> Working(u, p)
      /\ \A u \in Threads : \A p : Removing(u, p) => Removing(u, p)'
      /\ \A u \in Threads \ {t} : \A p : Removing(u, p)' => Removing(u, p)
    BY <1>1, Stepping
<1>7. UNCHANGED <<instance, phase, manager, left, disk>>
    BY <1>1 DEF Onward
<1>8. file' = [file EXCEPT ![q] = "whole"] /\ profiles' = profiles /\ listed' = listed
    BY <1>5 DEF Write
<1>9. \A u \in Threads, p \in Profiles : Working(u, p) /\ u # t => p # q
    BY <1>2, <1>4 DEF Alone
<1>10. \A p \in Profiles : p \in listed /\ file[p] = "whole" =>
          p \in profiles[instance] \/ \E u \in Threads : Removing(u, p)
  <2>1. instance # NoInstance
      BY <1>5, ProfilesAssumption
  <2> QED
      BY <1>2, <1>5, <2>1 DEF Remembered
<1>11. StoreTypeOK'
    BY <1>2, <1>4, <1>5, <1>7, <1>8 DEF StoreTypeOK
<1>12. Linked'
  <2>1. \A u \in Threads : phase[u] # "work" /\ phase[u] # "idle" => job'[u].at = 1
      BY <1>1, StepKeepsCalls
  <2> QED
      BY <1>2, <1>4, <1>5, <1>7, <1>8, <2>1, ProfilesAssumption
         DEF Linked, StoreTypeOK, Loading
<1>13. Alone'
    BY <1>1, StepKeepsCalls
<1>14. InProgress'
  <2> SUFFICES ASSUME NEW u \in Threads, NEW p \in Profiles, Working(u, p)'
               PROVE  Progress(u, p)'
      BY DEF InProgress
  <2>1. Working(u, p) /\ Progress(u, p)
      BY <1>2, <1>6 DEF InProgress
  <2>2. job[u] \in Jobs /\ job[u].at \in 1 .. 5
      BY <1>2 DEF StoreTypeOK, Jobs
  <2>3. CASE u = t
    <3>1. p = q
        BY <2>1, <2>3 DEF Working
    <3> QED
        BY <1>2, <1>3, <1>4, <1>5, <1>7, <1>8, <2>3, <3>1 DEF Progress, StoreTypeOK
  <2>4. CASE u # t
    <3>1. p # q /\ job'[u] = job[u]
        BY <1>5, <1>9, <2>1, <2>4
    <3> QED
        BY <1>2, <1>3, <1>4, <1>5, <1>7, <1>8, <2>1, <2>2, <3>1, ProfilesAssumption
           DEF Progress, StoreTypeOK
  <2> QED
      BY <2>3, <2>4
<1>15. Remembered'
  <2>1. ASSUME NEW p \in Profiles, (p \in listed /\ file[p] = "whole")'
        PROVE  (p \in profiles[instance])' \/ \E u \in Threads : Removing(u, p)'
    <3>1. CASE p # q
        BY <1>2, <1>4, <1>5, <1>6, <1>7, <1>8, <1>10, <2>1, <3>1 DEF StoreTypeOK
    <3>2. CASE p = q
        BY <1>3, <1>4, <1>7, <1>8, <3>2 DEF Progress
    <3> QED
        BY <3>1, <3>2
  <2> QED
      BY <2>1 DEF Remembered
<1>16. Saved'
  <2>1. ASSUME NEW p \in UserProfiles, (p \in profiles[instance])'
        PROVE  (p \in listed /\ file[p] = "whole")' \/ \E u \in Threads : Working(u, p)'
    <3>1. p \in Profiles /\ instance # NoInstance
        BY <1>5, ProfilesAssumption DEF Profiles
    <3>2. CASE p = q
        BY <1>4, <1>6, <3>2
    <3>3. CASE p # q
      <4>1. p \in profiles[instance]
          BY <1>2, <1>4, <1>5, <1>7, <1>8, <2>1, <3>1, <3>3 DEF StoreTypeOK
      <4>2. (p \in listed /\ file[p] = "whole") \/ \E u \in Threads : Working(u, p)
          BY <1>2, <3>1, <4>1 DEF Saved
      <4> QED
          BY <1>2, <1>4, <1>5, <1>6, <1>7, <1>8, <3>1, <3>3, <4>1, <4>2 DEF StoreTypeOK
    <3> QED
        BY <3>2, <3>3
  <2> QED
      BY <2>1 DEF Saved
<1>17. Older'
  <2>1. instance # NoInstance
      BY <1>5, ProfilesAssumption
  <2> QED
      BY <1>2, <1>3, <1>4, <1>5, <1>7, <1>8, <2>1 DEF Older, Progress, StoreTypeOK
<1>18. OnDisk'
  <2>1. ASSUME NEW p \in Profiles, Stored(p)'
        PROVE  p \in listed' \/ \E u \in Threads : Removing(u, p)'
    <3>1. CASE p # q
        BY <1>2, <1>4, <1>5, <1>6, <1>7, <1>8, <2>1, <3>1 DEF OnDisk, Stored, StoreTypeOK
    <3>2. CASE p = q
        BY <1>2, <1>3, <1>4, <1>5, <1>6, <1>7, <1>8, <2>1, <3>2, ProfilesAssumption DEF Stored, Progress, Older, StoreTypeOK
    <3> QED
        BY <3>1, <3>2
  <2> QED
      BY <2>1 DEF OnDisk
<1> QED
    BY <1>11, <1>12, <1>13, <1>14, <1>15, <1>16, <1>17, <1>18 DEF StoreInv

LEMMA SaveListKeepsInv == ASSUME StoreInv, NEW t \in Threads, SaveList(t) PROVE StoreInv'
<1> DEFINE q == job[t].on
<1>1. At(t, "list") /\ Onward(t)
    BY DEF SaveList
<1>2. StoreTypeOK /\ Linked /\ Alone /\ InProgress /\ Remembered /\ Saved
      /\ Older /\ OnDisk
    BY DEF StoreInv
<1>3. \/ job[t].kind = "import" /\ job[t].at = 4
      \/ job[t].kind = "new" /\ job[t].at = 2
      \/ job[t].kind = "remove" /\ job[t].at = 2
    BY <1>1, <1>2, StepAt
<1>4. q \in Profiles /\ Working(t, q) /\ Progress(t, q)
    BY <1>1, <1>2, <1>3 DEF StoreTypeOK, Jobs, At, Working, InProgress
<1>5. /\ instance \in Threads /\ manager[t] = instance
      /\ \A u \in Threads : phase[u] \notin {"create", "fill", "load"}
      /\ job' \in [Threads -> Jobs]
      /\ job'[t] = [kind |-> job[t].kind, on |-> q, at |-> job[t].at + 1]
      /\ \A u \in Threads \ {t} : job'[u] = job[u]
    BY <1>1, Stepping DEF Loading
<1>6. /\ \A u \in Threads : \A p : Working(u, p)' <=> Working(u, p)
      /\ \A u \in Threads : \A p : Removing(u, p) => Removing(u, p)'
      /\ \A u \in Threads \ {t} : \A p : Removing(u, p)' => Removing(u, p)
    BY <1>1, Stepping
<1>7. UNCHANGED <<instance, phase, manager, left, disk>>
    BY <1>1 DEF Onward
<1>8. listed' = profiles[instance] /\ profiles' = profiles /\ file' = file
    BY <1>5 DEF SaveList
<1>9. \A u \in Threads, p \in Profiles : Working(u, p) /\ u # t => p # q
    BY <1>2, <1>4 DEF Alone
<1>10. \A p \in Profiles : p \in listed /\ file[p] = "whole" =>
          p \in profiles[instance] \/ \E u \in Threads : Removing(u, p)
  <2>1. instance # NoInstance
      BY <1>5, ProfilesAssumption
  <2> QED
      BY <1>2, <1>5, <2>1 DEF Remembered
<1>11. StoreTypeOK'
    BY <1>2, <1>4, <1>5, <1>7, <1>8 DEF StoreTypeOK
<1>12. Linked'
  <2>1. \A u \in Threads : phase[u] # "work" /\ phase[u] # "idle" => job'[u].at = 1
      BY <1>1, StepKeepsCalls
  <2> QED
      BY <1>2, <1>4, <1>5, <1>7, <1>8, <2>1, ProfilesAssumption
         DEF Linked, StoreTypeOK, Loading
<1>13. Alone'
    BY <1>1, StepKeepsCalls
<1>14. InProgress'
  <2> SUFFICES ASSUME NEW u \in Threads, NEW p \in Profiles, Working(u, p)'
               PROVE  Progress(u, p)'
      BY DEF InProgress
  <2>1. Working(u, p) /\ Progress(u, p)
      BY <1>2, <1>6 DEF InProgress
  <2>2. job[u] \in Jobs /\ job[u].at \in 1 .. 5
      BY <1>2 DEF StoreTypeOK, Jobs
  <2>3. CASE u = t
    <3>1. p = q
        BY <2>1, <2>3 DEF Working
    <3> QED
        BY <1>2, <1>3, <1>4, <1>5, <1>7, <1>8, <2>3, <3>1 DEF Progress, StoreTypeOK
  <2>4. CASE u # t
    <3>1. p # q /\ job'[u] = job[u]
        BY <1>5, <1>9, <2>1, <2>4
    <3> QED
        BY <1>2, <1>3, <1>4, <1>5, <1>7, <1>8, <2>1, <2>2, <3>1, ProfilesAssumption
           DEF Progress, StoreTypeOK
  <2> QED
      BY <2>3, <2>4
<1>15. Remembered'
  <2>1. ASSUME NEW p \in Profiles, (p \in listed /\ file[p] = "whole")'
        PROVE  (p \in profiles[instance])' \/ \E u \in Threads : Removing(u, p)'
      BY <1>2, <1>4, <1>5, <1>6, <1>7, <1>8, <1>10, <2>1 DEF StoreTypeOK
  <2> QED
      BY <2>1 DEF Remembered
<1>16. Saved'
  <2>1. ASSUME NEW p \in UserProfiles, (p \in profiles[instance])'
        PROVE  (p \in listed /\ file[p] = "whole")' \/ \E u \in Threads : Working(u, p)'
    <3>1. p \in Profiles /\ instance # NoInstance
        BY <1>5, ProfilesAssumption DEF Profiles
    <3>2. CASE p = q
        BY <1>4, <1>6, <3>2
    <3>3. CASE p # q
      <4>1. p \in profiles[instance]
          BY <1>2, <1>4, <1>5, <1>7, <1>8, <2>1, <3>1, <3>3 DEF StoreTypeOK
      <4>2. (p \in listed /\ file[p] = "whole") \/ \E u \in Threads : Working(u, p)
          BY <1>2, <3>1, <4>1 DEF Saved
      <4> QED
          BY <1>2, <1>4, <1>5, <1>6, <1>7, <1>8, <3>1, <3>3, <4>1, <4>2 DEF StoreTypeOK
    <3> QED
        BY <3>2, <3>3
  <2> QED
      BY <2>1 DEF Saved
<1>17. Older'
  <2>1. instance # NoInstance
      BY <1>5, ProfilesAssumption
  <2> QED
      BY <1>2, <1>3, <1>4, <1>5, <1>7, <1>8, <2>1 DEF Older, Progress, StoreTypeOK
<1>18. OnDisk'
  <2>1. ASSUME NEW p \in Profiles, Stored(p)'
        PROVE  p \in listed' \/ \E u \in Threads : Removing(u, p)'
      BY <1>2, <1>4, <1>5, <1>6, <1>7, <1>8, <1>10, <2>1 DEF OnDisk, Stored, StoreTypeOK
  <2> QED
      BY <2>1 DEF OnDisk
<1> QED
    BY <1>11, <1>12, <1>13, <1>14, <1>15, <1>16, <1>17, <1>18 DEF StoreInv

LEMMA DeleteKeepsInv == ASSUME StoreInv, NEW t \in Threads, Delete(t) PROVE StoreInv'
<1> DEFINE q == job[t].on
<1>1. At(t, "delete") /\ Onward(t)
    BY DEF Delete
<1>2. StoreTypeOK /\ Linked /\ Alone /\ InProgress /\ Remembered /\ Saved
      /\ Older /\ OnDisk
    BY DEF StoreInv
<1>3. job[t].at = 3 /\ job[t].kind = "remove"
    BY <1>1, <1>2, StepAt
<1>4. q \in Profiles /\ Working(t, q) /\ Progress(t, q)
    BY <1>1, <1>2, <1>3 DEF StoreTypeOK, Jobs, At, Working, InProgress
<1>5. /\ instance \in Threads /\ manager[t] = instance
      /\ \A u \in Threads : phase[u] \notin {"create", "fill", "load"}
      /\ job' \in [Threads -> Jobs]
      /\ job'[t] = [kind |-> job[t].kind, on |-> q, at |-> job[t].at + 1]
      /\ \A u \in Threads \ {t} : job'[u] = job[u]
    BY <1>1, Stepping DEF Loading
<1>6. /\ \A u \in Threads : \A p : Working(u, p)' <=> Working(u, p)
      /\ \A u \in Threads : \A p : Removing(u, p) => Removing(u, p)'
      /\ \A u \in Threads \ {t} : \A p : Removing(u, p)' => Removing(u, p)
    BY <1>1, Stepping
<1>7. UNCHANGED <<instance, phase, manager, left, disk>>
    BY <1>1 DEF Onward
<1>8. file' = [file EXCEPT ![q] = "none"] /\ profiles' = profiles /\ listed' = listed
    BY <1>5 DEF Delete
<1>9. \A u \in Threads, p \in Profiles : Working(u, p) /\ u # t => p # q
    BY <1>2, <1>4 DEF Alone
<1>10. \A p \in Profiles : p \in listed /\ file[p] = "whole" =>
          p \in profiles[instance] \/ \E u \in Threads : Removing(u, p)
  <2>1. instance # NoInstance
      BY <1>5, ProfilesAssumption
  <2> QED
      BY <1>2, <1>5, <2>1 DEF Remembered
<1>11. StoreTypeOK'
    BY <1>2, <1>4, <1>5, <1>7, <1>8 DEF StoreTypeOK
<1>12. Linked'
  <2>1. \A u \in Threads : phase[u] # "work" /\ phase[u] # "idle" => job'[u].at = 1
      BY <1>1, StepKeepsCalls
  <2> QED
      BY <1>2, <1>4, <1>5, <1>7, <1>8, <2>1, ProfilesAssumption
         DEF Linked, StoreTypeOK, Loading
<1>13. Alone'
    BY <1>1, StepKeepsCalls
<1>14. InProgress'
  <2> SUFFICES ASSUME NEW u \in Threads, NEW p \in Profiles, Working(u, p)'
               PROVE  Progress(u, p)'
      BY DEF InProgress
  <2>1. Working(u, p) /\ Progress(u, p)
      BY <1>2, <1>6 DEF InProgress
  <2>2. job[u] \in Jobs /\ job[u].at \in 1 .. 5
      BY <1>2 DEF StoreTypeOK, Jobs
  <2>3. CASE u = t
    <3>1. p = q
        BY <2>1, <2>3 DEF Working
    <3> QED
        BY <1>2, <1>3, <1>4, <1>5, <1>7, <1>8, <2>3, <3>1 DEF Progress, StoreTypeOK
  <2>4. CASE u # t
    <3>1. p # q /\ job'[u] = job[u]
        BY <1>5, <1>9, <2>1, <2>4
    <3> QED
        BY <1>2, <1>3, <1>4, <1>5, <1>7, <1>8, <2>1, <2>2, <3>1, ProfilesAssumption
           DEF Progress, StoreTypeOK
  <2> QED
      BY <2>3, <2>4
<1>15. Remembered'
  <2>1. ASSUME NEW p \in Profiles, (p \in listed /\ file[p] = "whole")'
        PROVE  (p \in profiles[instance])' \/ \E u \in Threads : Removing(u, p)'
      BY <1>2, <1>4, <1>5, <1>6, <1>7, <1>8, <1>10, <2>1 DEF StoreTypeOK
  <2> QED
      BY <2>1 DEF Remembered
<1>16. Saved'
  <2>1. ASSUME NEW p \in UserProfiles, (p \in profiles[instance])'
        PROVE  (p \in listed /\ file[p] = "whole")' \/ \E u \in Threads : Working(u, p)'
    <3>1. p \in Profiles /\ instance # NoInstance
        BY <1>5, ProfilesAssumption DEF Profiles
    <3>2. CASE p = q
        BY <1>4, <1>6, <3>2
    <3>3. CASE p # q
      <4>1. p \in profiles[instance]
          BY <1>2, <1>4, <1>5, <1>7, <1>8, <2>1, <3>1, <3>3 DEF StoreTypeOK
      <4>2. (p \in listed /\ file[p] = "whole") \/ \E u \in Threads : Working(u, p)
          BY <1>2, <3>1, <4>1 DEF Saved
      <4> QED
          BY <1>2, <1>4, <1>5, <1>6, <1>7, <1>8, <3>1, <3>3, <4>1, <4>2 DEF StoreTypeOK
    <3> QED
        BY <3>2, <3>3
  <2> QED
      BY <2>1 DEF Saved
<1>17. Older'
  <2>1. instance # NoInstance
      BY <1>5, ProfilesAssumption
  <2> QED
      BY <1>2, <1>3, <1>4, <1>5, <1>7, <1>8, <2>1 DEF Older, Progress, StoreTypeOK
<1>18. OnDisk'
  <2>1. ASSUME NEW p \in Profiles, Stored(p)'
        PROVE  p \in listed' \/ \E u \in Threads : Removing(u, p)'
      BY <1>2, <1>4, <1>5, <1>6, <1>7, <1>8, <1>10, <2>1 DEF OnDisk, Stored, StoreTypeOK
  <2> QED
      BY <2>1 DEF OnDisk
<1> QED
    BY <1>11, <1>12, <1>13, <1>14, <1>15, <1>16, <1>17, <1>18 DEF StoreInv

--------------------------------------------------------------------------------
LEMMA InitHasInv == StoreInit => StoreInv
<1> SUFFICES ASSUME StoreInit PROVE StoreInv
    OBVIOUS
<1> USE DEF StoreInit
<1>1. \A t \in Threads : phase[t] = "idle" /\ profiles[t] = {}
    BY DEF AllIdle, NoProfiles
<1>2. StoreTypeOK
  <2>1. NoJobs \in [Threads -> Jobs]
      BY ProfilesAssumption DEF NoJobs, Jobs, Kinds
  <2> QED
      BY <2>1 DEF StoreTypeOK, AllIdle, NoProfiles, OwnManagers, Phases
<1>3. Linked
    BY <1>1 DEF Linked, Loading
<1>4. \A t \in Threads, p \in Profiles : ~Working(t, p)
    BY <1>1 DEF Working
<1> QED
    BY <1>2, <1>3, <1>4
       DEF StoreInv, Alone, InProgress, Remembered, Saved, Older, OnDisk, Stored

LEMMA CallKeepsInv ==
    ASSUME StoreInv, NEW t \in Threads, NEW kind \in Kinds, NEW p \in Profiles, Call(t, kind, p)
    PROVE  StoreInv'
<1>1. StoreTypeOK /\ Linked /\ Alone /\ InProgress /\ Remembered /\ Saved
      /\ Older /\ OnDisk
    BY DEF StoreInv
<1>2. /\ phase[t] = "idle" /\ MayCall(t, kind, p)
      /\ phase' = [phase EXCEPT ![t] = "check"]
      /\ job' = [job EXCEPT ![t] = [kind |-> kind, on |-> p, at |-> 1]]
      /\ UNCHANGED <<instance, profiles, manager, left, file, listed, disk>>
    BY DEF Call
<1>3. /\ job' \in [Threads -> Jobs] /\ phase' \in [Threads -> Phases]
      /\ job'[t] = [kind |-> kind, on |-> p, at |-> 1] /\ phase'[t] = "check"
      /\ \A u \in Threads \ {t} : job'[u] = job[u] /\ phase'[u] = phase[u]
    BY <1>1, <1>2 DEF StoreTypeOK, Jobs, Phases
<1>4. \A u \in Threads \ {t} : \A q : /\ Working(u, q)' <=> Working(u, q)
                                     /\ Removing(u, q)' <=> Removing(u, q)
    BY <1>3 DEF Working, Removing
<1>5. \A q : ~Working(t, q) /\ ~Removing(t, q) /\ ~Removing(t, q)'
    BY <1>2, <1>3 DEF Working, Removing
<1>6. kind \notin {"inspect", "get"} => \A u \in Threads : ~Working(u, p)
    BY <1>2 DEF MayCall, Unused, Shown, Kinds
<1>7. StoreTypeOK'
    BY <1>1, <1>2, <1>3 DEF StoreTypeOK
<1>8. Linked'
    BY <1>1, <1>2, <1>3 DEF Linked, Loading
<1>9. Alone'
  <2>1. \A q : Working(t, q)' => q = p /\ kind \notin {"inspect", "get"}
      BY <1>3 DEF Working
  <2> QED
      BY <1>1, <1>3, <1>6, <2>1 DEF Alone, Working
<1>10. InProgress'
  <2> SUFFICES ASSUME NEW u \in Threads, NEW q \in Profiles, Working(u, q)'
               PROVE  Progress(u, q)'
      BY DEF InProgress
  <2>1. CASE u = t
    <3>1. q = p /\ kind \notin {"inspect", "get"}
        BY <1>3, <2>1 DEF Working
    <3>2. kind \in {"import", "new", "apiAdd"} =>
             /\ file[p] = "none" /\ p \notin listed \cup disk
             /\ instance # NoInstance => p \notin profiles[instance]
             /\ kind # "apiAdd" => p \in UserProfiles
             /\ kind = "apiAdd" => p \in ApiProfiles
        BY <1>1, <1>2 DEF MayCall, Unused, StoreTypeOK
    <3>3. kind \in {"rewrite", "remove"} =>
             /\ instance # NoInstance /\ p \in profiles[instance]
             /\ p \in UserProfiles => p \in listed /\ file[p] = "whole"
      <4>1. kind \in {"rewrite", "remove"} => Shown(p)
          BY <1>2 DEF MayCall
      <4> QED
          BY <1>1, <4>1 DEF Shown, Saved
    <3>4. /\ job'[u].kind = kind /\ job'[u].at = 1
          /\ UNCHANGED <<instance, profiles, file, listed, disk>>
        BY <1>2, <1>3, <2>1
    <3> QED
        BY <3>1, <3>2, <3>3, <3>4 DEF Progress
  <2>2. CASE u # t
    <3>1. Working(u, q) /\ job'[u] = job[u]
        BY <1>3, <2>2 DEF Working
    <3>2. Progress(u, q)
        BY <1>1, <3>1 DEF InProgress
    <3> QED
        BY <1>2, <3>1, <3>2 DEF Progress
  <2> QED
      BY <2>1, <2>2
<1>11. Remembered'
  <2>1. \A u \in Threads : phase'[u] = "load" <=> phase[u] = "load"
      BY <1>2, <1>3
  <2>2. \A u \in Threads : phase'[u] = "fill" <=> phase[u] = "fill"
      BY <1>2, <1>3
  <2>3. \A u \in Threads : \A q : Removing(u, q)' <=> Removing(u, q)
      BY <1>2, <1>3 DEF Working, Removing
  <2> QED
      BY <1>1, <1>2, <2>1, <2>2, <2>3 DEF Remembered
<1>12. Saved'
  <2>1. \A u \in Threads : \A q : Working(u, q) => Working(u, q)'
      BY <1>2, <1>3 DEF Working
  <2> QED
      BY <1>1, <1>2, <2>1 DEF Saved
<1>13. Older'
    BY <1>1, <1>2 DEF Older
<1>14. OnDisk'
    BY <1>1, <1>2, <1>4, <1>5 DEF OnDisk, Stored
<1> QED
    BY <1>7, <1>8, <1>9, <1>10, <1>11, <1>12, <1>13, <1>14 DEF StoreInv

LEMMA CheckKeepsInv ==
    ASSUME ~LoadsOverlap, StoreInv, NEW t \in Threads, CheckInstance(t)
    PROVE  StoreInv'
<1>1. StoreTypeOK /\ Linked /\ Alone /\ InProgress /\ Remembered /\ Saved
      /\ Older /\ OnDisk
    BY DEF StoreInv
<1>2. /\ phase[t] = "check"
      /\ \A u \in Threads \ {t} : phase[u] \notin Loading
      /\ phase' = [phase EXCEPT ![t] = IF instance = NoInstance THEN "create" ELSE "work"]
      /\ manager' = [manager EXCEPT ![t] = IF instance = NoInstance THEN @ ELSE instance]
      /\ UNCHANGED <<instance, profiles, job, left, file, listed, disk>>
    BY DEF CheckInstance
<1>3. /\ phase'[t] = IF instance = NoInstance THEN "create" ELSE "work"
      /\ manager'[t] = IF instance = NoInstance THEN manager[t] ELSE instance
      /\ \A u \in Threads \ {t} : phase'[u] = phase[u] /\ manager'[u] = manager[u]
    BY <1>1, <1>2 DEF StoreTypeOK
<1>4. StoreTypeOK'
    BY <1>1, <1>2 DEF StoreTypeOK, Phases, Loading
<1>5. Linked'
    BY <1>1, <1>2, <1>3 DEF Linked, Loading
<1>6. \A u \in Threads : \A p : /\ Working(u, p)' <=> Working(u, p)
                               /\ Removing(u, p)' <=> Removing(u, p)
    BY <1>2, <1>3 DEF Working, Removing
<1>7. \A u \in Threads : /\ phase'[u] = "load" <=> phase[u] = "load"
                         /\ phase'[u] = "fill" <=> phase[u] = "fill"
    BY <1>2, <1>3
<1>8. Alone'
    BY <1>1, <1>2, <1>3 DEF Alone, Working
<1>9. InProgress'
  <2> SUFFICES ASSUME NEW u \in Threads, NEW p \in Profiles, Working(u, p)'
               PROVE  Progress(u, p)'
      BY DEF InProgress
  <2>1. Working(u, p) /\ Progress(u, p)
      BY <1>1, <1>2, <1>3 DEF InProgress, Working
  <2> QED
      BY <1>2, <2>1 DEF Progress
<1>10. Remembered'
    BY <1>1, <1>2, <1>6, <1>7 DEF Remembered
<1>11. Saved'
    BY <1>1, <1>2, <1>3 DEF Saved, Working
<1>12. Older'
    BY <1>1, <1>2 DEF Older
<1>13. OnDisk'
    BY <1>1, <1>2, <1>6 DEF OnDisk, Stored
<1> QED
    BY <1>4, <1>5, <1>8, <1>9, <1>10, <1>11, <1>12, <1>13 DEF StoreInv

LEMMA CreateKeepsInv == ASSUME StoreInv, NEW t \in Threads, Create(t) PROVE StoreInv'
<1>1. StoreTypeOK /\ Linked /\ Alone /\ InProgress /\ Remembered /\ Saved
      /\ Older /\ OnDisk
    BY DEF StoreInv
<1>2. /\ phase[t] = "create" /\ instance = NoInstance /\ instance' = t
      /\ phase' = [phase EXCEPT ![t] = "fill"]
      /\ UNCHANGED <<profiles, job, manager, left, file, listed, disk>>
    BY <1>1 DEF Create, Linked
<1>3. /\ phase'[t] = "fill" /\ \A u \in Threads \ {t} : phase'[u] = phase[u]
      /\ \A u \in Threads \ {t} : phase[u] \in {"idle", "check"}
      /\ \A u \in Threads : profiles[u] = {}
    BY <1>1, <1>2 DEF StoreTypeOK, Linked, Loading
<1>4. StoreTypeOK'
    BY <1>1, <1>2 DEF StoreTypeOK, Phases, Loading
<1>5. Linked'
    BY <1>1, <1>2, <1>3, ProfilesAssumption DEF Linked, Loading
<1>6. \A u \in Threads : \A p : /\ Working(u, p)' <=> Working(u, p)
                               /\ Removing(u, p)' <=> Removing(u, p)
    BY <1>2, <1>3 DEF Working, Removing
<1>7. InProgress'
  <2> SUFFICES ASSUME NEW u \in Threads, NEW p \in Profiles, Working(u, p)'
               PROVE  Progress(u, p)'
      BY DEF InProgress
  <2>1. Working(u, p) /\ Progress(u, p) /\ job[u].at = 1
      BY <1>1, <1>2, <1>3, <1>6 DEF InProgress, Linked, Working
  <2> QED
      BY <1>2, <1>3, <2>1 DEF Progress
<1>8. Alone'
    BY <1>1, <1>2, <1>3 DEF Alone, Working
<1>9. Remembered'
    BY <1>1, <1>2, <1>3, <1>6, <1>3 DEF Remembered
<1>10. Saved'
    BY <1>1, <1>2, <1>3 DEF Saved, Working
<1>11. Older'
    BY <1>1, <1>2, <1>3 DEF Older
<1>12. OnDisk'
    BY <1>1, <1>2, <1>3, <1>6 DEF OnDisk, Stored
<1> QED
    BY <1>4, <1>5, <1>7, <1>8, <1>9, <1>10, <1>11, <1>12 DEF StoreInv

LEMMA BeginLoadKeepsInv == ASSUME StoreInv, NEW t \in Threads, BeginLoad(t) PROVE StoreInv'
<1>1. StoreTypeOK /\ Linked /\ Alone /\ InProgress /\ Remembered /\ Saved
      /\ Older /\ OnDisk
    BY DEF StoreInv
<1>2. /\ phase[t] = "fill" /\ instance \in Threads /\ profiles[instance] = {}
      /\ phase' = [phase EXCEPT ![t] = "load"]
      /\ manager' = [manager EXCEPT ![t] = instance]
      /\ profiles' = profiles
      /\ left' = [left EXCEPT ![t] = listed]
      /\ UNCHANGED <<instance, job, file, listed, disk>>
  <2>1. phase[t] = "fill" /\ instance \in Threads /\ profiles[instance] = {}
      BY <1>1 DEF BeginLoad, StoreTypeOK, Linked
  <2>2. profiles' = profiles
      BY <1>1, <2>1 DEF BeginLoad, StoreTypeOK
  <2> QED
      BY <2>1, <2>2 DEF BeginLoad
<1>3. /\ phase'[t] = "load" /\ manager'[t] = instance /\ left'[t] = listed
      /\ \A u \in Threads \ {t} :
           phase'[u] = phase[u] /\ manager'[u] = manager[u] /\ left'[u] = left[u]
      /\ \A u \in Threads \ {t} : phase[u] \in {"idle", "check"}
    BY <1>1, <1>2 DEF StoreTypeOK, Linked, Loading
<1>4. StoreTypeOK'
    BY <1>1, <1>2 DEF StoreTypeOK, Phases, Loading
<1>5. Linked'
    BY <1>1, <1>2, <1>3, ProfilesAssumption DEF Linked, Loading
<1>6. \A u \in Threads : \A p : /\ Working(u, p)' <=> Working(u, p)
                               /\ Removing(u, p)' <=> Removing(u, p)
    BY <1>2, <1>3 DEF Working, Removing
<1>7. Alone'
    BY <1>1, <1>2, <1>3 DEF Alone, Working
<1>8. InProgress'
  <2> SUFFICES ASSUME NEW u \in Threads, NEW p \in Profiles, Working(u, p)'
               PROVE  Progress(u, p)'
      BY DEF InProgress
  <2>1. Working(u, p) /\ Progress(u, p)
      BY <1>1, <1>2, <1>3 DEF InProgress, Working
  <2> QED
      BY <1>2, <1>3, <2>1 DEF Progress
<1>9. Remembered'
    BY <1>1, <1>2, <1>3, <1>6 DEF Remembered
<1>10. Saved'
    BY <1>1, <1>2, <1>3 DEF Saved, Working
<1>11. Older'
    BY <1>1, <1>2, <1>3 DEF Older
<1>12. OnDisk'
    BY <1>1, <1>2, <1>3, <1>6 DEF OnDisk, Stored
<1> QED
    BY <1>4, <1>5, <1>7, <1>8, <1>9, <1>10, <1>11, <1>12 DEF StoreInv

LEMMA LoadKeepsInv ==
    ASSUME StoreInv, NEW t \in Threads, NEW p \in Profiles, Load(t, p)
    PROVE  StoreInv'
<1>1. StoreTypeOK /\ Linked /\ Alone /\ InProgress /\ Remembered /\ Saved
      /\ Older /\ OnDisk
    BY DEF StoreInv
<1>2. /\ phase[t] = "load" /\ p \in left[t] /\ p \in listed
      /\ instance \in Threads /\ manager[t] = instance
      /\ left' = [left EXCEPT ![t] = @ \ {p}]
      /\ profiles' = IF file[p] = "whole"
                     THEN [profiles EXCEPT ![instance] = @ \cup {p}] ELSE profiles
      /\ UNCHANGED <<instance, phase, job, manager, file, listed, disk>>
    BY <1>1 DEF Load, StoreTypeOK, Linked
<1>3. /\ left'[t] = left[t] \ {p} /\ \A u \in Threads \ {t} : left'[u] = left[u]
      /\ profiles'[instance] =
           IF file[p] = "whole" THEN profiles[instance] \cup {p} ELSE profiles[instance]
      /\ \A u \in Threads \ {t} : phase[u] \in {"idle", "check"}
      /\ instance # NoInstance
    BY <1>1, <1>2, ProfilesAssumption DEF StoreTypeOK, Linked, Loading
<1>4. StoreTypeOK'
    BY <1>1, <1>2 DEF StoreTypeOK
<1>5. Linked'
    BY <1>1, <1>2, <1>3 DEF Linked, Loading
<1>6. \A u \in Threads : \A q : /\ Working(u, q)' <=> Working(u, q)
                               /\ Removing(u, q)' <=> Removing(u, q)
    BY <1>2 DEF Working, Removing
<1>7. InProgress'
  <2> SUFFICES ASSUME NEW u \in Threads, NEW q \in Profiles, Working(u, q)'
               PROVE  Progress(u, q)'
      BY DEF InProgress
  <2>1. Working(u, q) /\ Progress(u, q) /\ job[u].at = 1
      BY <1>1, <1>2, <1>3, <1>6 DEF InProgress, Linked, Working
  <2> QED
      BY <1>2, <1>3, <2>1 DEF Progress
<1>8. Remembered'
  <2>1. ASSUME NEW q \in Profiles, q \in listed, file[q] = "whole"
        PROVE  \/ q \in profiles'[instance]
               \/ \E u \in Threads : phase[u] = "load" /\ q \in left'[u]
               \/ \E u \in Threads : Removing(u, q)
    <3>1. \A u \in Threads : phase[u] # "fill"
        BY <1>2, <1>3
    <3>2. \/ q \in profiles[instance]
          \/ \E u \in Threads : phase[u] = "load" /\ q \in left[u]
          \/ \E u \in Threads : Removing(u, q)
        BY <1>1, <1>3, <2>1, <3>1 DEF Remembered
    <3> QED
        BY <1>2, <1>3, <2>1, <3>2
  <2> QED
      BY <1>2, <1>6, <2>1 DEF Remembered
<1>9. Alone'
    BY <1>1, <1>2, <1>3 DEF Alone, Working
<1>10. Saved'
    BY <1>1, <1>2, <1>3 DEF Saved, Working
<1>11. Older'
    BY <1>1, <1>2, <1>3 DEF Older
<1>12. OnDisk'
    BY <1>1, <1>2, <1>3, <1>6 DEF OnDisk, Stored
<1> QED
    BY <1>4, <1>5, <1>7, <1>8, <1>9, <1>10, <1>11, <1>12 DEF StoreInv

LEMMA LoadedKeepsInv == ASSUME StoreInv, NEW t \in Threads, Loaded(t) PROVE StoreInv'
<1>1. StoreTypeOK /\ Linked /\ Alone /\ InProgress /\ Remembered /\ Saved
      /\ Older /\ OnDisk
    BY DEF StoreInv
<1>2. /\ phase[t] = "load" /\ left[t] = {} /\ instance \in Threads
      /\ phase' = [phase EXCEPT ![t] = "work"]
      /\ manager' = [manager EXCEPT ![t] = instance]
      /\ UNCHANGED <<instance, profiles, job, left, file, listed, disk>>
    BY <1>1 DEF Loaded, StoreTypeOK, Linked
<1>3. /\ phase'[t] = "work" /\ manager'[t] = instance
      /\ \A u \in Threads \ {t} : phase'[u] = phase[u] /\ manager'[u] = manager[u]
      /\ \A u \in Threads \ {t} : phase[u] \in {"idle", "check"}
      /\ instance # NoInstance
    BY <1>1, <1>2, ProfilesAssumption DEF StoreTypeOK, Linked, Loading
<1>4. StoreTypeOK'
    BY <1>1, <1>2 DEF StoreTypeOK, Phases
<1>5. Linked'
    BY <1>1, <1>2, <1>3 DEF Linked, Loading
<1>6. \A u \in Threads : \A p : /\ Working(u, p)' <=> Working(u, p)
                               /\ Removing(u, p)' <=> Removing(u, p)
    BY <1>2, <1>3 DEF Working, Removing
<1>7. Alone'
    BY <1>1, <1>2, <1>3 DEF Alone, Working
<1>8. InProgress'
  <2> SUFFICES ASSUME NEW u \in Threads, NEW p \in Profiles, Working(u, p)'
               PROVE  Progress(u, p)'
      BY DEF InProgress
  <2>1. Working(u, p) /\ Progress(u, p)
      BY <1>1, <1>2, <1>3 DEF InProgress, Working
  <2> QED
      BY <1>2, <1>3, <2>1 DEF Progress
<1>9. Remembered'
    BY <1>1, <1>2, <1>3, <1>6 DEF Remembered
<1>10. Saved'
    BY <1>1, <1>2, <1>3 DEF Saved, Working
<1>11. Older'
    BY <1>1, <1>2, <1>3 DEF Older
<1>12. OnDisk'
    BY <1>1, <1>2, <1>3, <1>6 DEF OnDisk, Stored
<1> QED
    BY <1>4, <1>5, <1>7, <1>8, <1>9, <1>10, <1>11, <1>12 DEF StoreInv

LEMMA ReturnKeepsInv == ASSUME StoreInv, NEW t \in Threads, Return(t) PROVE StoreInv'
<1> DEFINE q == job[t].on
<1>1. StoreTypeOK /\ Linked /\ Alone /\ InProgress /\ Remembered /\ Saved
      /\ Older /\ OnDisk
    BY DEF StoreInv
<1>2. /\ phase[t] = "work" /\ job[t].at \notin DOMAIN Steps[job[t].kind]
      /\ phase' = [phase EXCEPT ![t] = "idle"]
      /\ UNCHANGED <<instance, profiles, job, manager, left, file, listed, disk>>
    BY DEF Return
<1>3. /\ phase'[t] = "idle" /\ \A u \in Threads \ {t} : phase'[u] = phase[u]
      /\ \A u \in Threads : phase'[u] = "load" <=> phase[u] = "load"
      /\ \A u \in Threads : phase'[u] = "fill" <=> phase[u] = "fill"
    BY <1>1, <1>2 DEF StoreTypeOK
<1>4. StoreTypeOK'
    BY <1>1, <1>2 DEF StoreTypeOK, Phases
<1>5. Linked'
    BY <1>1, <1>2, <1>3 DEF Linked, Loading
<1>6. /\ \A u \in Threads : \A p : Working(u, p)' => Working(u, p)
      /\ \A u \in Threads \ {t} : \A p : /\ Working(u, p)' <=> Working(u, p)
                                        /\ Removing(u, p)' <=> Removing(u, p)
    BY <1>2, <1>3 DEF Working, Removing
<1>7. \A p \in Profiles : Working(t, p) =>
         /\ p \in UserProfiles /\ p \in profiles[instance] => p \in listed /\ file[p] = "whole"
         /\ Removing(t, p) => file[p] # "whole"
  <2> SUFFICES ASSUME NEW p \in Profiles, Working(t, p)
               PROVE  /\ p \in UserProfiles /\ p \in profiles[instance] =>
                             p \in listed /\ file[p] = "whole"
                      /\ Removing(t, p) => file[p] # "whole"
      OBVIOUS
  <2>1. Progress(t, p)
      BY <1>1 DEF InProgress
  <2>2. /\ job[t].kind \in {"import", "new"} => job[t].at = 5
        /\ job[t].kind = "rewrite" => job[t].at > 2
        /\ job[t].kind = "remove" => job[t].at > 3
        /\ job[t] \in Jobs
      BY <1>1, <1>2, StepAt DEF StoreTypeOK
  <2> QED
      BY <2>1, <2>2, ProfilesAssumption DEF Progress, Removing, Working, Jobs, Kinds
<1>8. InProgress'
  <2> SUFFICES ASSUME NEW u \in Threads, NEW p \in Profiles, Working(u, p)'
               PROVE  Progress(u, p)'
      BY DEF InProgress
  <2>1. Working(u, p) /\ Progress(u, p)
      BY <1>1, <1>2, <1>3 DEF InProgress, Working
  <2> QED
      BY <1>2, <2>1 DEF Progress
<1>9. Remembered'
  <2>1. ASSUME NEW p \in Profiles, file[p] = "whole", NEW u \in Threads, Removing(u, p)
        PROVE  Removing(u, p)'
      BY <1>6, <1>7, <2>1 DEF Removing
  <2> QED
      BY <1>1, <1>2, <1>3, <2>1 DEF Remembered
<1>10. Saved'
  <2>1. ASSUME NEW p \in UserProfiles, instance # NoInstance, p \in profiles[instance],
               ~(p \in listed /\ file[p] = "whole")
        PROVE  \E u \in Threads : Working(u, p)'
    <3>1. p \in Profiles
        BY DEF Profiles
    <3>2. PICK u \in Threads : Working(u, p)
        BY <1>1, <2>1 DEF Saved
    <3>3. u # t
        BY <1>7, <2>1, <3>1, <3>2
    <3> QED
        BY <1>2, <1>3, <3>2, <3>3 DEF Working
  <2> QED
      BY <1>2, <2>1 DEF Saved
<1>11. OnDisk'
  <2>1. ASSUME NEW p \in Profiles, Stored(p), p \notin listed
        PROVE  \E u \in Threads : Removing(u, p)'
    <3>1. PICK u \in Threads : Removing(u, p)
        BY <1>1, <2>1 DEF OnDisk
    <3>2. u # t
        BY <1>7, <2>1, <3>1 DEF Removing, Stored
    <3> QED
        BY <1>6, <3>1, <3>2
  <2> QED
      BY <1>2, <2>1 DEF OnDisk, Stored
<1> QED
    BY <1>1, <1>2, <1>4, <1>5, <1>6, <1>8, <1>9, <1>10, <1>11
       DEF StoreInv, Alone, Older

LEMMA CommitKeepsInv == ASSUME StoreInv, Commit PROVE StoreInv'
<1>1. StoreTypeOK /\ Linked /\ Alone /\ InProgress /\ Remembered /\ Saved
      /\ Older /\ OnDisk
    BY DEF StoreInv
<1>2. /\ disk' = listed
      /\ UNCHANGED <<instance, profiles, phase, job, manager, left, file, listed>>
    BY DEF Commit
<1> QED
    BY <1>1, <1>2
       DEF StoreInv, StoreTypeOK, Linked, Alone, InProgress, Progress, Remembered, Saved,
           Older, OnDisk, Stored, Working, Removing

LEMMA KillKeepsInv == ASSUME StoreInv, Kill PROVE StoreInv'
<1>1. StoreTypeOK /\ Linked /\ Alone /\ InProgress /\ Remembered /\ Saved
      /\ Older /\ OnDisk
    BY DEF StoreInv
<1>2. /\ instance' = NoInstance /\ profiles' = NoProfiles /\ phase' = AllIdle
      /\ job' = NoJobs /\ manager' = OwnManagers /\ left' = NoProfiles
      /\ listed' = disk /\ UNCHANGED <<file, disk>>
    BY DEF Kill
<1>3. \A t \in Threads : phase'[t] = "idle" /\ profiles'[t] = {}
    BY <1>2 DEF AllIdle, NoProfiles
<1>4. StoreTypeOK'
  <2>1. NoJobs \in [Threads -> Jobs]
      BY ProfilesAssumption DEF NoJobs, Jobs, Kinds
  <2> QED
      BY <1>1, <1>2, <2>1 DEF StoreTypeOK, AllIdle, NoProfiles, OwnManagers, Phases
<1>5. Linked'
    BY <1>2, <1>3 DEF Linked, Loading
<1>6. \A t \in Threads, p \in Profiles : ~Working(t, p)'
    BY <1>3 DEF Working
<1> QED
    BY <1>2, <1>4, <1>5, <1>6
       DEF StoreInv, Alone, InProgress, Remembered, Saved, Older, OnDisk, Stored

LEMMA NextKeepsInv ==
    ASSUME ~LoadsOverlap, StoreInv, [StoreNext]_storeVars
    PROVE  StoreInv'
<1>1. ASSUME NEW t \in Threads, ThreadStep(t) PROVE StoreInv'
    BY <1>1, CallKeepsInv, CheckKeepsInv, CreateKeepsInv, BeginLoadKeepsInv, LoadKeepsInv,
       LoadedKeepsInv, AddKeepsInv, ForgetKeepsInv, OpenKeepsInv, WriteKeepsInv,
       SaveListKeepsInv, DeleteKeepsInv, ReturnKeepsInv
       DEF ThreadStep
<1>2. ASSUME UNCHANGED storeVars PROVE StoreInv'
  <2>1. UNCHANGED <<instance, profiles, phase, job, manager, left, file, listed, disk>>
      BY <1>2 DEF storeVars
  <2> QED
      BY <2>1
         DEF StoreInv, StoreTypeOK, Linked, Alone, InProgress, Progress, Remembered, Saved,
             Older, OnDisk, Stored, Working, Removing
<1> QED
    BY <1>1, <1>2, CommitKeepsInv, KillKeepsInv DEF StoreNext

\* What holds between all steps when no call meets the load of another thread.
THEOREM StoreInvariant == ~LoadsOverlap => (StoreSpec => []StoreInv)
<1> SUFFICES ASSUME ~LoadsOverlap PROVE StoreSpec => []StoreInv
    OBVIOUS
<1>1. StoreInit => StoreInv
    BY InitHasInv
<1>2. StoreInv /\ [StoreNext]_storeVars => StoreInv'
    BY NextKeepsInv
<1> QED
    BY <1>1, <1>2, PTL DEF StoreSpec

\* The maps, jobs, files and lists keep their types.
THEOREM StoreTypes == ~LoadsOverlap => (StoreSpec => []StoreTypeOK)
<1>1. StoreInv => StoreTypeOK
    BY DEF StoreInv
<1> QED
    BY <1>1, StoreInvariant, PTL

\* Between calls the activities' profiles in memory are those that are stored.
THEOREM ShownAreSaved == ~LoadsOverlap => (StoreSpec => []ShownIsSaved)
<1>1. StoreInv => ShownIsSaved
  <2> SUFFICES ASSUME StoreInv, instance # NoInstance, \A t \in Threads : phase[t] = "idle",
                      NEW p \in UserProfiles
               PROVE  p \in profiles[instance] <=> p \in listed /\ file[p] = "whole"
      BY DEF ShownIsSaved
  <2>1. \A t \in Threads : ~Working(t, p) /\ ~Removing(t, p) /\ phase[t] \notin {"load", "fill"}
      BY DEF Working, Removing
  <2>2. p \in Profiles
      BY DEF Profiles
  <2>3. p \in profiles[instance] => p \in listed /\ file[p] = "whole"
      BY <2>1 DEF StoreInv, Saved
  <2>4. p \in listed /\ file[p] = "whole" => p \in profiles[instance]
      BY <2>1, <2>2 DEF StoreInv, Remembered
  <2> QED
      BY <2>3, <2>4
<1> QED
    BY <1>1, StoreInvariant, PTL

\* A stored profile stays stored unless a call rewrites or removes it.
LEMMA OnlyOwnCallsUnstore ==
    ASSUME StoreInv, [StoreNext]_storeVars, NEW p \in Profiles, Stored(p), ~Stored(p)'
    PROVE  \E t \in Threads : Working(t, p) /\ job[t].kind \in {"rewrite", "remove"}
<1>1. CASE Commit
  <2>1. p \notin listed
      BY <1>1 DEF Commit, Stored
  <2> QED
      BY <2>1 DEF StoreInv, OnDisk, Removing
<1>2. ASSUME NEW t \in Threads, Open(t) \/ Delete(t)
      PROVE  Working(t, p) /\ job[t].kind \in {"rewrite", "remove"}
  <2>1. StoreTypeOK /\ InProgress
      BY DEF StoreInv
  <2>2. job[t].on = p
      BY <1>2, <2>1 DEF Open, Delete, Onward, Stored, StoreTypeOK
  <2>3. \/ job[t].kind = "import" /\ job[t].at = 2
        \/ job[t].kind = "new" /\ job[t].at = 3
        \/ job[t].kind \in {"rewrite", "remove"}
      BY <1>2, <2>1, StepAt DEF Open, Delete
  <2>4. phase[t] = "work"
      BY <1>2 DEF Open, Delete, At
  <2>5. Working(t, p)
      BY <2>2, <2>3, <2>4 DEF Working
  <2>6. Progress(t, p)
      BY <2>1, <2>5 DEF InProgress
  <2> QED
      BY <2>3, <2>5, <2>6 DEF Progress, Stored
<1>3. ASSUME NEW t \in Threads, Write(t) PROVE FALSE
  <2>1. file \in [Profiles -> {"none", "torn", "whole"}]
      BY DEF StoreInv, StoreTypeOK
  <2> QED
      BY <1>3, <2>1 DEF Write, Onward, Stored
<1>4. ASSUME UNCHANGED <<file, disk>> PROVE FALSE
    BY <1>4 DEF Stored
<1>5. ASSUME NEW t \in Threads, ThreadStep(t), ~Open(t), ~Delete(t), ~Write(t)
      PROVE  FALSE
  <2>1. UNCHANGED <<file, disk>>
      BY <1>5 DEF ThreadStep, Call, CheckInstance, Create, BeginLoad, Load, Loaded, Add,
                  Forget, SaveList, Return, Onward
  <2> QED
      BY <1>4, <2>1
<1>6. CASE Kill \/ UNCHANGED storeVars
    BY <1>4, <1>6 DEF Kill, storeVars
<1> QED
    BY <1>1, <1>2, <1>3, <1>5, <1>6 DEF StoreNext

THEOREM StoredAreKept == ~LoadsOverlap => (StoreSpec => StoredIsKept)
<1> SUFFICES ASSUME ~LoadsOverlap PROVE StoreSpec => StoredIsKept
    OBVIOUS
<1>1. StoreSpec => []StoreInv
    BY StoreInvariant
<1>2. StoreInv /\ [StoreNext]_storeVars =>
        [\A p \in Profiles :
           Stored(p) /\ ~Stored(p)' =>
              \E t \in Threads : Working(t, p) /\ job[t].kind \in {"rewrite", "remove"}]_storeVars
    BY OnlyOwnCallsUnstore
<1> QED
    BY <1>1, <1>2, PTL DEF StoreSpec, StoredIsKept
================================================================================
