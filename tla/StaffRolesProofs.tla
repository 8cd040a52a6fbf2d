-------------------------- MODULE StaffRolesProofs --------------------------
(***************************************************************************)
(* Theorems about StaffRoles, for any number of people and of sessions.    *)
(*                                                                         *)
(* NoSecondProfile is the heart of it.  It holds because of a row lock     *)
(* that the code never asks for: autoflush sends the UPDATE of the role    *)
(* before the SELECT of the profile.  The invariant says who holds that    *)
(* lock (Written), that it excludes (RowLocks), and what a session may     *)
(* conclude from what it loaded (Loaded).  What a session that was not     *)
(* outrun has loaded is still so when it commits (Current), which is what  *)
(* the guard of the last administrator and the demotion rest on.           *)
(***************************************************************************)
EXTENDS StaffRoles, FiniteSetTheorems, TLAPS

\* Where a session may hold uncommitted versions, and of what.
Written ==
    \A s \in Sessions :
        /\ pc[s] # "idle" => target[s] \in People
        /\ pc[s] = "idle" => found[s] = "none" /\ new_role[s] = "client"
        /\ userWrite[s] # Keep =>
               /\ pc[s] \in {"set_role", "select_master", "flush_master", "commit"}
               /\ pc[s] = "set_role" \/ userWrite[s] = new_role[s]
        /\ pc[s] \in {"select_master", "flush_master"} /\ userWrite[s] = Keep =>
               new_role[s] = old_role[s]
        /\ masterWrite[s] # Keep => pc[s] = "commit"

\* Two sessions never hold uncommitted versions of one row.
RowLocks ==
    \A s, q \in Sessions :
        s # q /\ target[s] = target[q] =>
            /\ userWrite[s] = Keep \/ userWrite[q] = Keep
            /\ masterWrite[s] = Keep \/ masterWrite[q] = Keep

\* A profile once seen is never gone, and one that is being written is
\* there already or belongs to the person who becomes a master.
Loaded ==
    \A s \in Sessions :
        /\ pc[s] # "idle" /\ old_role[s] = "master" => profile[target[s]] # "none"
        /\ pc[s] # "idle" /\ found[s] # "none" => profile[target[s]] # "none"
        /\ pc[s] \in {"get_master", "flush_toggle"} => profile[target[s]] # "none"
        /\ masterWrite[s] # Keep =>
               profile[target[s]] # "none" \/ userWrite[s] = "master"
        /\ pc[s] = "commit" /\ userWrite[s] = "master" =>
               profile[target[s]] # "none" \/ masterWrite[s] # Keep

\* Whoever's card is on the screen is registered, and a session that has
\* found no row has gone on only after its INSERT.
Registered ==
    \A s \in Sessions :
        /\ pc[s] = "get_target" => role[target[s]] # "absent"
        /\ pc[s] = "insert_user" => old_role[s] = "absent"
        /\ old_role[s] = "absent" /\ pc[s] # "insert_user" => userWrite[s] # Keep
        /\ old_role[s] = "absent" => new_role[s] \in {"client", "admin"}
        /\ pc[s] = "set_role" /\ userWrite[s] # Keep =>
               old_role[s] = "absent" /\ new_role[s] = "admin"

\* What a session that was not outrun knows at the statements of set_role.
InSetRole(s) ==
    \/ pc[s] \in {"set_role", "select_master", "flush_master"}
    \/ userWrite[s] # Keep

CurrentAt(s) ==
    /\ pc[s] = "count_admins" \/ InSetRole(s) => old_role[s] = role[target[s]]
    /\ InSetRole(s) /\ Demotes(s) => \E a \in Admins : a # target[s]
    /\ pc[s] = "flush_master" => found[s] = profile[target[s]]
    /\ pc[s] = "commit" /\ userWrite[s] # Keep /\ old_role[s] = "master"
           /\ new_role[s] # "master" =>
           \/ profile[target[s]] # "active" /\ masterWrite[s] = Keep
           \/ masterWrite[s] = "blocked"

Current == \A s \in Sessions \ outrun : CurrentAt(s)

StaffInv ==
    /\ TypeOK /\ Written /\ RowLocks /\ Loaded /\ Registered /\ Current
    /\ MasterHasProfile /\ NoSecondProfile /\ RegisteredOnce

-----------------------------------------------------------------------------
LEMMA StaffInit == Init => StaffInv
BY NobodyAssumption
DEF Init, StaffInv, TypeOK, Written, RowLocks, Loaded, Registered, Current, CurrentAt,
    InSetRole, MasterHasProfile, NoSecondProfile, RegisteredOnce, UserRole, User,
    Profile, Keep, MasterRowFree

\* Ending a transaction without a commit disturbs nothing.
LEMMA RollbackStep ==
    ASSUME StaffInv, NEW s \in Sessions, Rollback(s)
    PROVE  StaffInv'
<1> USE DEF StaffInv, TypeOK, Keep, UserRole, User, Profile, Rollback, Close
<1>1. TypeOK'
  OBVIOUS
<1>2. Written'
  BY DEF Written
<1>3. RowLocks'
  BY DEF RowLocks
<1>4. Loaded'
  BY DEF Loaded
<1>5. MasterHasProfile'
  BY DEF MasterHasProfile
<1>6. NoSecondProfile'
  BY DEF NoSecondProfile, MasterRowFree
<1>7. Registered'
  BY DEF Registered, Written
<1>8. Current'
  BY DEF Current, CurrentAt, InSetRole, Demotes, Admins, Written, Registered
<1>9. RegisteredOnce'
  BY DEF RegisteredOnce, Written
<1> QED
  BY <1>1, <1>2, <1>3, <1>4, <1>5, <1>6, <1>7, <1>8, <1>9

\* A button pressed, or the script started: nothing is written yet.
LEMMA PressRoleStep ==
    ASSUME StaffInv, NEW s \in Sessions, NEW by \in People, NEW u \in People,
           NEW r \in UserRole, PressRole(s, by, u, r)
    PROVE  StaffInv'
<1> USE DEF StaffInv, TypeOK, Keep, UserRole, User, Profile, PressRole
<1>1. TypeOK'
  OBVIOUS
<1>2. Written'
  BY DEF Written
<1>3. RowLocks'
  BY DEF RowLocks, Written
<1>4. Loaded'
  BY DEF Loaded, MasterHasProfile, Written
<1>5. MasterHasProfile'
  BY DEF MasterHasProfile
<1>6. NoSecondProfile'
  BY DEF NoSecondProfile, MasterRowFree, Written
<1>7. Registered'
  BY DEF Registered, Written
<1>8. Current'
  BY DEF Current, CurrentAt, InSetRole, Demotes, Admins, Written, Registered
<1>9. RegisteredOnce'
  BY DEF RegisteredOnce, Written
<1> QED
  BY <1>1, <1>2, <1>3, <1>4, <1>5, <1>6, <1>7, <1>8, <1>9

LEMMA PressToggleStep ==
    ASSUME StaffInv, NEW s \in Sessions, NEW by \in People, NEW u \in People,
           PressToggle(s, by, u)
    PROVE  StaffInv'
<1> USE DEF StaffInv, TypeOK, Keep, UserRole, User, Profile, PressToggle
<1>1. TypeOK'
  OBVIOUS
<1>2. Written'
  BY DEF Written
<1>3. RowLocks'
  BY DEF RowLocks, Written
<1>4. Loaded'
  BY DEF Loaded, MasterHasProfile, Written
<1>5. MasterHasProfile'
  BY DEF MasterHasProfile
<1>6. NoSecondProfile'
  BY DEF NoSecondProfile, MasterRowFree, Written
<1>7. Registered'
  BY DEF Registered, Written
<1>8. Current'
  BY DEF Current, CurrentAt, InSetRole, Demotes, Admins, Written, Registered
<1>9. RegisteredOnce'
  BY DEF RegisteredOnce, Written
<1> QED
  BY <1>1, <1>2, <1>3, <1>4, <1>5, <1>6, <1>7, <1>8, <1>9

LEMMA GrantStep ==
    ASSUME StaffInv, NEW s \in Sessions, NEW u \in People, Grant(s, u)
    PROVE  StaffInv'
<1> USE DEF StaffInv, TypeOK, Keep, UserRole, User, Profile, Grant
<1>1. TypeOK'
  OBVIOUS
<1>2. Written'
  BY DEF Written
<1>3. RowLocks'
  BY DEF RowLocks, Written
<1>4. Loaded'
  BY DEF Loaded, MasterHasProfile, Written
<1>5. MasterHasProfile'
  BY DEF MasterHasProfile
<1>6. NoSecondProfile'
  BY DEF NoSecondProfile, MasterRowFree, Written
<1>7. Registered'
  BY DEF Registered, Written
<1>8. Current'
  BY DEF Current, CurrentAt, InSetRole, Demotes, Admins, Written, Registered
<1>9. RegisteredOnce'
  BY DEF RegisteredOnce, Written
<1> QED
  BY <1>1, <1>2, <1>3, <1>4, <1>5, <1>6, <1>7, <1>8, <1>9

\* A first update, before anything is written.
LEMMA FirstUpdateStep ==
    ASSUME StaffInv, NEW s \in Sessions, NEW u \in People, FirstUpdate(s, u)
    PROVE  StaffInv'
<1> USE DEF StaffInv, TypeOK, Keep, UserRole, User, Profile, FirstUpdate
<1>1. TypeOK'
  OBVIOUS
<1>2. Written'
  BY DEF Written, Registered
<1>3. RowLocks'
  BY DEF RowLocks, Written, UserRowFree
<1>4. Loaded'
  BY DEF Loaded, MasterHasProfile, Written
<1>5. MasterHasProfile'
  BY DEF MasterHasProfile
<1>6. NoSecondProfile'
  BY DEF NoSecondProfile, MasterRowFree, Written
<1>7. Registered'
  BY DEF Registered, Written
<1>8. Current'
  BY DEF Current, CurrentAt, InSetRole, Demotes, Admins, Written, Registered
<1>9. RegisteredOnce'
  BY DEF RegisteredOnce, Written
<1> QED
  BY <1>1, <1>2, <1>3, <1>4, <1>5, <1>6, <1>7, <1>8, <1>9

\* The INSERT takes the lock of a row that was never committed.
LEMMA InsertUserStep ==
    ASSUME StaffInv, NEW s \in Sessions, InsertUser(s)
    PROVE  StaffInv'
<1> USE DEF StaffInv, TypeOK, Keep, UserRole, User, Profile, InsertUser
<1>1. TypeOK'
  OBVIOUS
<1>2. Written'
  BY DEF Written, Registered
<1>3. RowLocks'
  BY DEF RowLocks, Written, UserRowFree
<1>4. Loaded'
  BY DEF Loaded, MasterHasProfile, Written
<1>5. MasterHasProfile'
  BY DEF MasterHasProfile
<1>6. NoSecondProfile'
  BY DEF NoSecondProfile, MasterRowFree, Written
<1>7. Registered'
  BY DEF Registered, Written
<1>8. Current'
  BY DEF Current, CurrentAt, InSetRole, Demotes, Admins, Written, Registered
<1>9. RegisteredOnce'
  BY DEF RegisteredOnce, Written
<1> QED
  BY <1>1, <1>2, <1>3, <1>4, <1>5, <1>6, <1>7, <1>8, <1>9

\* What a session reads is true when it reads it.
LEMMA ReadingStep ==
    ASSUME StaffInv, NEW s \in Sessions,
           GetTarget(s) \/ PassAdminGuard(s) \/ GetMaster(s)
    PROVE  StaffInv'
<1> USE DEF StaffInv, TypeOK, Keep, UserRole, User, Profile, GetTarget, PassAdminGuard,
            GetMaster
<1>1. TypeOK'
  BY DEF Written
<1>2. Written'
  BY DEF Written
<1>3. RowLocks'
  BY DEF RowLocks, Written
<1>4. Loaded'
  BY DEF Loaded, MasterHasProfile, Written
<1>5. MasterHasProfile'
  BY DEF MasterHasProfile
<1>6. NoSecondProfile'
  BY DEF NoSecondProfile, MasterRowFree, Written
<1>7. Registered'
  BY DEF Registered, Written
<1>8. Current'
  <2>1. ASSUME PassAdminGuard(s), Demotes(s)
        PROVE  \E a \in Admins : a # target[s]
    <3>1. IsFiniteSet(Admins)
      BY PeopleAssumption, FS_Subset DEF Admins
    <3>2. CASE Admins \subseteq {target[s]}
      <4>1. Cardinality(Admins) <= Cardinality({target[s]})
        BY <3>2, FS_Subset, FS_Singleton
      <4> QED
        BY <2>1, <3>1, <4>1, FS_Singleton, FS_CardinalityType DEF LastAdmin
    <3> QED
      BY <3>2
  <2> QED
    BY <2>1 DEF Current, CurrentAt, InSetRole, Demotes, Admins, Written, Registered
<1>9. RegisteredOnce'
  BY DEF RegisteredOnce, Written
<1> QED
  BY <1>1, <1>2, <1>3, <1>4, <1>5, <1>6, <1>7, <1>8, <1>9

\* The UPDATE of the role takes the lock.
LEMMA SetRoleStep ==
    ASSUME StaffInv, NEW s \in Sessions, SetRole(s)
    PROVE  StaffInv'
<1> USE DEF StaffInv, TypeOK, Keep, UserRole, User, Profile, SetRole
<1>1. TypeOK'
  OBVIOUS
<1>2. Written'
  BY DEF Written
<1>3. RowLocks'
  BY DEF RowLocks, UserRowFree, Written
<1>4. Loaded'
  BY DEF Loaded, Written
<1>5. MasterHasProfile'
  BY DEF MasterHasProfile
<1>6. NoSecondProfile'
  BY DEF NoSecondProfile, MasterRowFree, Written
<1>7. Registered'
  BY DEF Registered, Written
<1>8. Current'
  BY DEF Current, CurrentAt, InSetRole, Demotes, Admins, Written, Registered
<1>9. RegisteredOnce'
  BY DEF RegisteredOnce, Written, Registered
<1> QED
  BY <1>1, <1>2, <1>3, <1>4, <1>5, <1>6, <1>7, <1>8, <1>9

\* A person about to become a master who has no profile is locked by the
\* session that saw so: whoever writes a profile for the same person found
\* one, or holds the same lock.
LEMMA SelectMasterStep ==
    ASSUME StaffInv, NEW s \in Sessions, SelectMaster(s)
    PROVE  StaffInv'
<1> USE DEF StaffInv, TypeOK, Keep, UserRole, User, Profile, SelectMaster
<1>1. TypeOK'
  BY DEF Written
<1>2. Written'
  BY DEF Written
<1>3. RowLocks'
  BY DEF RowLocks
<1>4. Loaded'
  BY DEF Loaded, Written
<1>5. MasterHasProfile'
  BY DEF MasterHasProfile
<1>6. NoSecondProfile'
  <2>1. ASSUME profile[target[s]] = "none", new_role[s] = "master"
        PROVE  MasterRowFree(s, target[s])
    <3>1. userWrite[s] = "master"
      BY <2>1 DEF Written, Loaded
    <3>2. ASSUME NEW q \in Sessions \ {s}, target[q] = target[s],
                 masterWrite[q] # Keep
          PROVE  FALSE
      <4>1. userWrite[q] = "master"
        BY <2>1, <3>2 DEF Loaded
      <4> QED
        BY <3>1, <3>2, <4>1 DEF RowLocks
    <3> QED
      BY <3>2 DEF MasterRowFree
  <2> QED
    BY <2>1 DEF NoSecondProfile, MasterRowFree
<1>7. Registered'
  BY DEF Registered, Written
<1>8. Current'
  BY DEF Current, CurrentAt, InSetRole, Demotes, Admins, Written, Registered
<1>9. RegisteredOnce'
  BY DEF RegisteredOnce, Written
<1> QED
  BY <1>1, <1>2, <1>3, <1>4, <1>5, <1>6, <1>7, <1>8, <1>9

\* No session writes a profile that another one saw missing.
LEMMA FlushMasterStep ==
    ASSUME StaffInv, NEW s \in Sessions, FlushMaster(s)
    PROVE  StaffInv'
<1> USE DEF StaffInv, TypeOK, Keep, UserRole, User, Profile, FlushMaster
<1>1. TypeOK'
  BY DEF ProfileAfter, StepsDown
<1>2. Written'
  BY DEF Written
<1>3. RowLocks'
  BY DEF RowLocks, MasterRowFree, Written
<1>4. Loaded'
  BY DEF Loaded, Written, ProfileAfter, StepsDown
<1>5. MasterHasProfile'
  BY DEF MasterHasProfile
<1>6. NoSecondProfile'
  <2> SUFFICES ASSUME NEW q \in Sessions, q # s,
                      pc[q] = "flush_master", found[q] = "none",
                      new_role[q] = "master", target[q] = target[s],
                      ProfileAfter(s) # found[s]
               PROVE  FALSE
    BY DEF NoSecondProfile, MasterRowFree
  <2>1. profile[target[s]] = "none"
    BY DEF NoSecondProfile
  <2>2. userWrite[q] = "master"
    BY <2>1 DEF Written, Loaded
  <2>3. new_role[s] = "master"
    BY <2>1 DEF ProfileAfter, StepsDown, Loaded
  <2>4. userWrite[s] = "master"
    BY <2>1, <2>3 DEF Written, Loaded
  <2> QED
    BY <2>2, <2>4 DEF RowLocks
<1>7. Registered'
  BY DEF Registered, Written
<1>8. Current'
  BY DEF Current, CurrentAt, InSetRole, Demotes, Admins, Written, Registered,
      ProfileAfter, StepsDown
<1>9. RegisteredOnce'
  BY DEF RegisteredOnce, Written
<1> QED
  BY <1>1, <1>2, <1>3, <1>4, <1>5, <1>6, <1>7, <1>8, <1>9

\* The block button exists for a profile only.
LEMMA FlushToggleStep ==
    ASSUME StaffInv, NEW s \in Sessions, FlushToggle(s)
    PROVE  StaffInv'
<1> USE DEF StaffInv, TypeOK, Keep, UserRole, User, Profile, FlushToggle
<1>1. TypeOK'
  OBVIOUS
<1>2. Written'
  BY DEF Written
<1>3. RowLocks'
  BY DEF RowLocks, MasterRowFree, Written
<1>4. Loaded'
  BY DEF Loaded, Written
<1>5. MasterHasProfile'
  BY DEF MasterHasProfile
<1>6. NoSecondProfile'
  BY DEF NoSecondProfile, MasterRowFree, Loaded
<1>7. Registered'
  BY DEF Registered, Written
<1>8. Current'
  BY DEF Current, CurrentAt, InSetRole, Demotes, Admins, Written, Registered
<1>9. RegisteredOnce'
  BY DEF RegisteredOnce, Written
<1> QED
  BY <1>1, <1>2, <1>3, <1>4, <1>5, <1>6, <1>7, <1>8, <1>9

\* A session in flight that is not outrun by a commit saw no change in it.
LEMMA UnseenCommit ==
    ASSUME StaffInv, NEW s \in Sessions, Commit(s),
           NEW q \in Sessions \ outrun', q # s, pc[q] # "idle"
    PROVE  q \notin outrun /\ role' = role /\ profile' = profile
<1>1. outrun' = (outrun \cup Outruns(s)) \ {s}
  BY DEF Commit
<1>2. q \notin outrun /\ q \notin Outruns(s)
  BY <1>1
<1>3. userWrite[s] = Keep /\ masterWrite[s] = Keep
  BY <1>2 DEF Outruns
<1> QED
  BY <1>2, <1>3 DEF Commit, Or, StaffInv, TypeOK

\* A commit gives the role together with the profile.
LEMMA CommitStep ==
    ASSUME StaffInv, NEW s \in Sessions, Commit(s)
    PROVE  StaffInv'
<1> USE DEF StaffInv, TypeOK, Keep, UserRole, User, Profile, Commit, Close, Or, Outruns
<1>1. TypeOK'
  BY DEF Written
<1>2. Written'
  BY DEF Written
<1>3. RowLocks'
  BY DEF RowLocks
<1>4. Loaded'
  BY DEF Loaded, Written
<1>5. MasterHasProfile'
  BY DEF MasterHasProfile, Loaded, Written
<1>6. NoSecondProfile'
  BY DEF NoSecondProfile, MasterRowFree, Written
<1>7. Registered'
  BY DEF Registered, Written
<1>8. Current'
  <2>1. ASSUME NEW q \in Sessions \ outrun', q # s, pc[q] # "idle"
        PROVE  q \notin outrun /\ role' = role /\ profile' = profile
    BY <2>1, UnseenCommit
  <2>2. ASSUME NEW q \in Sessions, q = s \/ pc[q] = "idle"
        PROVE  pc'[q] = "idle" /\ userWrite'[q] = Keep
    BY <2>2 DEF Written
  <2>3. ASSUME NEW q \in Sessions \ outrun', q # s
        PROVE  /\ pc'[q] = pc[q] /\ target'[q] = target[q]
               /\ new_role'[q] = new_role[q] /\ old_role'[q] = old_role[q]
               /\ found'[q] = found[q] /\ userWrite'[q] = userWrite[q]
               /\ masterWrite'[q] = masterWrite[q]
    BY <2>3
  <2>4. ASSUME NEW q \in Sessions \ outrun', q # s, pc[q] # "idle"
        PROVE  (InSetRole(q) <=> InSetRole(q)') /\ (Demotes(q) <=> Demotes(q)')
    BY <2>3, <2>4 DEF InSetRole, Demotes
  <2>5. ASSUME NEW q \in Sessions, q = s \/ pc[q] = "idle"
        PROVE  ~InSetRole(q)' /\ pc'[q] = "idle"
    BY <2>2, <2>5 DEF InSetRole
  <2>6. ASSUME role' = role
        PROVE  Admins' = Admins
    BY <2>6 DEF Admins
  <2>7. ASSUME NEW q \in Sessions \ outrun', q # s, pc[q] # "idle"
        PROVE  CurrentAt(q)'
    <3>1. CurrentAt(q)
      BY <2>1, <2>7 DEF Current
    <3>2. role' = role /\ profile' = profile /\ Admins' = Admins
      BY <2>1, <2>6, <2>7
    <3> HIDE DEF StaffInv, TypeOK, Commit, Close
    <3> QED
      BY <2>3, <2>4, <2>7, <3>1, <3>2 DEF CurrentAt
  <2>8. ASSUME NEW q \in Sessions, q = s \/ pc[q] = "idle"
        PROVE  CurrentAt(q)'
    BY <2>2, <2>5, <2>8 DEF CurrentAt
  <2> QED
    BY <2>7, <2>8 DEF Current
<1>9. RegisteredOnce'
  BY DEF RegisteredOnce, Written, RowLocks
<1> QED
  BY <1>1, <1>2, <1>3, <1>4, <1>5, <1>6, <1>7, <1>8, <1>9

LEMMA StaffStep == StaffInv /\ [Next]_vars => StaffInv'
<1> SUFFICES ASSUME StaffInv, [Next]_vars PROVE StaffInv'
  OBVIOUS
<1>1. CASE UNCHANGED vars
  BY <1>1
  DEF vars, StaffInv, TypeOK, Written, RowLocks, Loaded, Registered, Current, CurrentAt,
      InSetRole, Demotes, Admins, MasterHasProfile, NoSecondProfile,
      RegisteredOnce, MasterRowFree
<1>2. ASSUME NEW s \in Sessions,
             RefuseLastAdmin(s) \/ InsertRefused(s) \/ DbError(s)
      PROVE  StaffInv'
  BY <1>2, RollbackStep DEF RefuseLastAdmin, InsertRefused, DbError
<1> QED
  BY <1>1, <1>2, PressRoleStep, PressToggleStep, GrantStep, FirstUpdateStep,
     InsertUserStep, ReadingStep,
     SetRoleStep, SelectMasterStep, FlushMasterStep, FlushToggleStep,
     CommitStep
  DEF Next, Press, Proceed

\* Every variable keeps its type whatever the admins and the scripts press.
THEOREM StaffTypeCorrect == Spec => []TypeOK
<1>1. StaffInv => TypeOK
  BY DEF StaffInv
<1> QED
  BY <1>1, StaffInit, StaffStep, PTL DEF Spec

\* Whoever is a master has a profile, with any number of concurrent admins.
THEOREM MastersAreBookable == Spec => []MasterHasProfile
<1>1. StaffInv => MasterHasProfile
  BY DEF StaffInv
<1> QED
  BY <1>1, StaffInit, StaffStep, PTL DEF Spec

\* No two sessions create a profile for the same person, although neither
\* locks anything on purpose.
THEOREM ProfileCreatedOnce == Spec => []NoSecondProfile
<1>1. StaffInv => NoSecondProfile
  BY DEF StaffInv
<1> QED
  BY <1>1, StaffInit, StaffStep, PTL DEF Spec

\* The script and the first message of the owner never both register the
\* owner, so that neither role overwrites the other.
THEOREM UsersInsertedOnce == Spec => []RegisteredOnce
<1>1. StaffInv => RegisteredOnce
  BY DEF StaffInv
<1> QED
  BY <1>1, StaffInit, StaffStep, PTL DEF Spec

-----------------------------------------------------------------------------
LEMMA CommitKeepsAdmin ==
    ASSUME StaffInv, NEW s \in Sessions \ outrun, Commit(s), Admins # {}
    PROVE  Admins' # {}
<1> USE DEF StaffInv, TypeOK, Keep, UserRole, User
<1>1. CASE userWrite[s] = Keep
  BY <1>1 DEF Commit, Or, Admins
<1>2. CASE userWrite[s] # Keep /\ userWrite[s] = "admin"
  BY <1>2 DEF Commit, Or, Admins, Written
<1>3. CASE userWrite[s] \notin {Keep, "admin"}
  <2>1. userWrite[s] = new_role[s] /\ InSetRole(s)
    BY <1>3 DEF Written, Commit, InSetRole
  <2>2. \E a \in Admins : a # target[s]
    BY <1>3, <2>1 DEF Current, CurrentAt, Demotes, Admins
  <2> QED
    BY <2>2 DEF Commit, Admins
<1> QED
  BY <1>1, <1>2, <1>3

\* The guard of cb_set_role does its work for any number of sessions, up to
\* the ones that were outrun by a commit between the count and their own.
THEOREM GuardKeepsAdmin == Spec => LastAdminKept
<1>1. StaffInv /\ [Next]_vars =>
      [\A s \in Sessions \ outrun : Commit(s) /\ Admins # {} => Admins' # {}]_vars
  BY CommitKeepsAdmin
<1> QED
  BY <1>1, StaffInit, StaffStep, PTL DEF Spec, LastAdminKept

LEMMA CommitBlocks ==
    ASSUME StaffInv, NEW s \in Sessions \ outrun, NEW u \in People, Commit(s),
           role[u] = "master", role'[u] # "master"
    PROVE  profile'[u] # "active"
<1> USE DEF StaffInv, TypeOK, Keep, UserRole, User, Profile
<1>1. u = target[s] /\ userWrite[s] # Keep /\ userWrite[s] = new_role[s]
  BY DEF Commit, Or, Written
<1>2. old_role[s] = "master" /\ new_role[s] # "master"
  BY <1>1 DEF Commit, Or, Current, CurrentAt, InSetRole
<1>3. \/ profile[u] # "active" /\ masterWrite[s] = Keep
      \/ masterWrite[s] = "blocked"
  BY <1>1, <1>2 DEF Commit, Current, CurrentAt
<1> QED
  BY <1>1, <1>3 DEF Commit, Or

\* A demotion that was not outrun takes the profile off the list of masters.
THEOREM DemotionTakesEffect == Spec => DemotionBlocksAlone
<1>1. StaffInv /\ [Next]_vars =>
      [\A s \in Sessions \ outrun, u \in People :
           Commit(s) /\ role[u] = "master" /\ role'[u] # "master"
           => profile'[u] # "active"]_vars
  BY CommitBlocks
<1> QED
  BY <1>1, StaffInit, StaffStep, PTL DEF Spec, DemotionBlocksAlone

-----------------------------------------------------------------------------
(* No circular wait                                                        *)

\* Whoever holds a row of `masters' is at its commit, so that the waiting is
\* for rows of `users', and who waits for one of those holds none.
LEMMA SomeoneGoesOn ==
    ASSUME StaffInv, NEW circle \in (SUBSET Sessions) \ {{}}
    PROVE  \E s \in circle : \A q \in circle : ~WaitsFor(s, q)
<1> SUFFICES ASSUME \A s \in circle : \E q \in circle : WaitsFor(s, q)
             PROVE  FALSE
  OBVIOUS
<1>1. PICK s \in circle : \E q \in circle : WaitsFor(s, q)
  OBVIOUS
<1>2. PICK q \in circle : WaitsFor(s, q)
  BY <1>1
<1>3. PICK r \in circle : WaitsFor(q, r)
  OBVIOUS
<1>4. \A x \in circle : masterWrite[x] = Keep
  <2> SUFFICES ASSUME NEW x \in circle, masterWrite[x] # Keep
               PROVE  FALSE
    OBVIOUS
  <2>1. pc[x] = "commit"
    BY DEF StaffInv, Written
  <2>2. PICK y \in circle : WaitsFor(x, y)
    OBVIOUS
  <2> QED
    BY <2>1, <2>2 DEF WaitsFor
<1>5. userWrite[q] # Keep /\ userWrite[r] # Keep
  BY <1>2, <1>3, <1>4 DEF WaitsFor
<1>6. q # r /\ target[q] = target[r]
  BY <1>3 DEF WaitsFor
<1> QED
  BY <1>5, <1>6 DEF StaffInv, RowLocks

\* Any number of administrators, scripts and first updates at once never
\* deadlock on the rows of `users' and `masters'.
THEOREM SessionsNeverDeadlock == Spec => []NoCircularWait
<1>1. StaffInv => NoCircularWait
  BY SomeoneGoesOn DEF NoCircularWait
<1> QED
  BY <1>1, StaffInit, StaffStep, PTL DEF Spec

-----------------------------------------------------------------------------
(* A commit that is not outrun                                             *)

\* A session of the block button carries no role.
Roleless ==
    \A s \in Sessions :
        pc[s] \in {"idle", "get_master", "flush_toggle"} =>
            new_role[s] = "client" /\ old_role[s] = "client"

\* What a session that was not outrun is about to commit fits the tables.
SettledAt(s) ==
    /\ pc[s] = "flush_toggle" => found[s] = profile[target[s]]
    /\ pc[s] = "commit" =>
           IF Toggles(s)
           THEN /\ userWrite[s] = Keep
                /\ masterWrite[s] = Opposite(profile[target[s]])
           ELSE /\ Or(userWrite[s], role[target[s]]) = new_role[s]
                /\ Or(masterWrite[s], profile[target[s]]) =
                       Synced(role[target[s]], new_role[s], profile[target[s]])

Settled == \A s \in Sessions \ outrun : SettledAt(s)

SettledInv == StaffInv /\ Roleless /\ Settled

Step(s) == Press(s) \/ Proceed(s) \/ DbError(s)

\* A session changes nothing of another one.
LEMMA OthersUntouched ==
    ASSUME StaffInv, NEW s \in Sessions, Step(s), NEW q \in Sessions \ {s}
    PROVE  /\ pc'[q] = pc[q] /\ target'[q] = target[q]
           /\ new_role'[q] = new_role[q] /\ old_role'[q] = old_role[q]
           /\ found'[q] = found[q] /\ userWrite'[q] = userWrite[q]
           /\ masterWrite'[q] = masterWrite[q]
<1> USE DEF StaffInv, TypeOK
<1>1. ASSUME Press(s)
      PROVE  /\ pc'[q] = pc[q] /\ target'[q] = target[q]
             /\ new_role'[q] = new_role[q] /\ old_role'[q] = old_role[q]
             /\ found'[q] = found[q] /\ userWrite'[q] = userWrite[q]
             /\ masterWrite'[q] = masterWrite[q]
  BY <1>1 DEF Press, PressRole, PressToggle, Grant, FirstUpdate
<1> QED
  BY <1>1
  DEF Step, Proceed, DbError, Rollback, Close, InsertUser, InsertRefused,
      GetTarget, RefuseLastAdmin, PassAdminGuard, SetRole, SelectMaster,
      FlushMaster, GetMaster, FlushToggle, Commit

\* Only a commit changes the tables.
LEMMA TablesKept ==
    ASSUME NEW s \in Sessions, Step(s), ~Commit(s)
    PROVE  role' = role /\ profile' = profile /\ outrun' \in {outrun, outrun \ {s}}
BY DEF Step, Press, PressRole, PressToggle, Grant, FirstUpdate, Proceed, DbError,
       Rollback, InsertUser, InsertRefused, GetTarget, RefuseLastAdmin,
       PassAdminGuard, SetRole, SelectMaster, FlushMaster, GetMaster, FlushToggle

LEMMA RolelessStep ==
    ASSUME SettledInv, NEW s \in Sessions, Step(s)
    PROVE  Roleless'
<1> SUFFICES pc'[s] \in {"idle", "get_master", "flush_toggle"} =>
                 new_role'[s] = "client" /\ old_role'[s] = "client"
  BY OthersUntouched DEF SettledInv, Roleless
<1> USE DEF SettledInv, StaffInv, TypeOK, Roleless
<1>1. CASE Press(s)
  BY <1>1 DEF Press, PressRole, PressToggle, Grant, FirstUpdate
<1> QED
  BY <1>1
  DEF Step, Proceed, DbError, Rollback, Close, InsertUser, InsertRefused,
      GetTarget, RefuseLastAdmin, PassAdminGuard, SetRole, SelectMaster,
      FlushMaster, GetMaster, FlushToggle, Commit

\* What other sessions do leaves a session settled that they do not outrun.
LEMMA OthersSettled ==
    ASSUME SettledInv, NEW s \in Sessions, Step(s),
           NEW q \in Sessions \ outrun', q # s
    PROVE  SettledAt(q)'
<1>1. /\ pc'[q] = pc[q] /\ target'[q] = target[q]
      /\ new_role'[q] = new_role[q] /\ old_role'[q] = old_role[q]
      /\ found'[q] = found[q] /\ userWrite'[q] = userWrite[q]
      /\ masterWrite'[q] = masterWrite[q]
  BY OthersUntouched DEF SettledInv
<1>2. CASE pc[q] = "idle"
  BY <1>1, <1>2 DEF SettledAt
<1>3. CASE pc[q] # "idle"
  <2>1. q \notin outrun /\ role' = role /\ profile' = profile
    BY <1>3, UnseenCommit, TablesKept DEF SettledInv
  <2>2. SettledAt(q)
    BY <2>1 DEF SettledInv, Settled
  <2> QED
    BY <1>1, <2>1, <2>2 DEF SettledAt, Toggles
<1> QED
  BY <1>2, <1>3

\* The statements after which a session has nothing left but to commit.
LEMMA InsertSettles ==
    ASSUME SettledInv, NEW s \in Sessions, InsertUser(s)
    PROVE  SettledAt(s)'
BY DEF SettledInv, StaffInv, TypeOK, Registered, Written, InsertUser, SettledAt,
       Toggles, Or, Synced, Keep, UserRole, Profile

LEMMA FlushMasterSettles ==
    ASSUME SettledInv, NEW s \in Sessions \ outrun, FlushMaster(s)
    PROVE  SettledAt(s)'
<1> USE DEF SettledInv, StaffInv, TypeOK, Keep, UserRole, User, Profile
<1>1. /\ pc[s] = "flush_master" /\ pc'[s] = "commit"
      /\ masterWrite'[s] = IF ProfileAfter(s) # found[s] THEN ProfileAfter(s) ELSE Keep
      /\ UNCHANGED <<role, profile, target, new_role, old_role, found, userWrite>>
  BY DEF FlushMaster
<1>2. old_role[s] = role[target[s]] /\ found[s] = profile[target[s]]
  BY <1>1 DEF Current, CurrentAt, InSetRole
<1>3. Or(userWrite[s], role[target[s]]) = new_role[s]
  BY <1>1, <1>2 DEF Written, Or
<1>4. target[s] \in People /\ profile[target[s]] \in Profile
  BY <1>1 DEF Written
<1>5. Or(masterWrite'[s], profile[target[s]]) =
          Synced(role[target[s]], new_role[s], profile[target[s]])
  BY <1>1, <1>2, <1>4 DEF Or, Synced, ProfileAfter, StepsDown
<1>6. ~Toggles(s)'
  BY <1>1 DEF Toggles, ProfileAfter, StepsDown
<1> QED
  BY <1>1, <1>3, <1>5, <1>6 DEF SettledAt

LEMMA FlushToggleSettles ==
    ASSUME SettledInv, NEW s \in Sessions \ outrun, FlushToggle(s)
    PROVE  SettledAt(s)'
BY DEF SettledInv, StaffInv, TypeOK, Written, Roleless, Settled, SettledAt,
       FlushToggle, Toggles, Opposite, Keep

LEMMA SettledStep == SettledInv /\ [Next]_vars => SettledInv'
<1> SUFFICES ASSUME SettledInv, [Next]_vars
             PROVE  SettledInv'
  OBVIOUS
<1>1. StaffInv'
  BY StaffStep DEF SettledInv
<1>2. CASE UNCHANGED vars
  BY <1>1, <1>2 DEF vars, SettledInv, Roleless, Settled, SettledAt, Toggles
<1>3. ASSUME NEW s \in Sessions, Step(s)
      PROVE  Roleless' /\ Settled'
  <2>1. ASSUME s \notin outrun'
        PROVE  SettledAt(s)'
    <3> USE <1>3 DEF SettledInv, StaffInv, TypeOK
    <3>1. CASE pc'[s] \notin {"flush_toggle", "commit"}
      BY <3>1 DEF SettledAt
    <3>2. CASE pc'[s] = "flush_toggle"
      <4>1. GetMaster(s)
        <5>1. ~Press(s)
          BY <3>2 DEF Press, PressRole, PressToggle, Grant, FirstUpdate
        <5> QED
          BY <3>2, <5>1
          DEF Step, Proceed, DbError, Rollback, Close, InsertUser, InsertRefused,
              GetTarget, RefuseLastAdmin, PassAdminGuard, SetRole, SelectMaster,
              FlushMaster, FlushToggle, Commit
      <4> QED
        BY <3>2, <4>1 DEF GetMaster, SettledAt
    <3>3. CASE pc'[s] = "commit"
      <4>1. InsertUser(s) \/ FlushMaster(s) \/ FlushToggle(s)
        <5>1. ~Press(s)
          BY <3>3 DEF Press, PressRole, PressToggle, Grant, FirstUpdate
        <5> QED
          BY <3>3, <5>1
          DEF Step, Proceed, DbError, Rollback, Close, InsertRefused,
              GetTarget, RefuseLastAdmin, PassAdminGuard, SetRole, SelectMaster,
              GetMaster, Commit
      <4>2. s \notin outrun
        BY <2>1, <4>1 DEF InsertUser, FlushMaster, FlushToggle
      <4> QED
        BY <4>1, <4>2, InsertSettles, FlushMasterSettles, FlushToggleSettles
    <3> QED
      BY <3>1, <3>2, <3>3
  <2> QED
    BY <1>3, <2>1, OthersSettled, RolelessStep DEF Settled
<1> QED
  BY <1>1, <1>2, <1>3 DEF Next, Step, SettledInv

LEMMA SettledCommit ==
    ASSUME SettledInv, NEW s \in Sessions \ outrun, Commit(s)
    PROVE  LET u == target[s]
           IN  /\ <<role'[u], profile'[u]>> =
                      IF Toggles(s) THEN <<role[u], Opposite(profile[u])>>
                      ELSE <<new_role[s], Synced(role[u], new_role[s], profile[u])>>
               /\ \A v \in People \ {u} : role'[v] = role[v] /\ profile'[v] = profile[v]
<1>1. SettledAt(s) /\ pc[s] = "commit" /\ target[s] \in People
  BY DEF SettledInv, Settled, StaffInv, Written, Commit
<1>2. /\ role'[target[s]] = Or(userWrite[s], role[target[s]])
      /\ profile'[target[s]] = Or(masterWrite[s], profile[target[s]])
      /\ \A v \in People \ {target[s]} : role'[v] = role[v] /\ profile'[v] = profile[v]
  BY <1>1 DEF Commit, SettledInv, StaffInv, TypeOK
<1>3. Opposite(profile[target[s]]) # Keep
  BY DEF Opposite, Keep
<1> QED
  BY <1>1, <1>2, <1>3 DEF SettledAt, Or

\* set_role with its profile, the block button and the registration are each
\* one atomic change of the tables for any number of concurrent sessions, up
\* to those that were outrun by a commit between their reading and their own.
THEOREM CommitsAreAtomic == Spec => CommitAsIfAlone
<1>1. Init => SettledInv
  BY StaffInit DEF Init, SettledInv, Roleless, Settled, SettledAt
<1>2. SettledInv /\ [Next]_vars =>
      [\A s \in Sessions \ outrun :
           Commit(s) =>
               LET u == target[s]
               IN  /\ <<role'[u], profile'[u]>> =
                          IF Toggles(s) THEN <<role[u], Opposite(profile[u])>>
                          ELSE <<new_role[s], Synced(role[u], new_role[s], profile[u])>>
                   /\ \A v \in People \ {u} :
                          role'[v] = role[v] /\ profile'[v] = profile[v]]_vars
  BY SettledCommit
<1> QED
  BY <1>1, <1>2, SettledStep, PTL DEF Spec, CommitAsIfAlone

=============================================================================
