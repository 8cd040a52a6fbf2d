----------------------------- MODULE StaffRoles -----------------------------
(***************************************************************************)
(* Registration, roles and master profiles under concurrent                *)
(* administration: the transactions of CurrentUserMiddleware, cb_set_role, *)
(* cb_toggle_master and scripts/grant_admin, between the statements at     *)
(* which they await PostgreSQL.                                            *)
(*                                                                         *)
(* `role' and `profile' are the committed rows of `users' and of `masters' *)
(* by user_id.  A session keeps what it loaded: SQLAlchemy's identity map  *)
(* answers a second session.get of the same row without asking the         *)
(* database, and an attribute set to the value loaded writes nothing.      *)
(* An UPDATE is not sent when the attribute is set but at the next         *)
(* statement (autoflush), and locks its row until the transaction ends.    *)
(***************************************************************************)
EXTENDS FiniteSets, Naturals

CONSTANTS
    People,    \* telegram_ids
    Sessions,  \* updates (and scripts) handled at once, one AsyncSession each
    Nobody     \* no user in hand

ASSUME NobodyAssumption == Nobody \notin People
ASSUME PeopleAssumption == IsFiniteSet(People)

UserRole == {"client", "master", "admin"}

\* A row of `users', or none.
User == UserRole \cup {"absent"}

\* A user has no row in `masters', or one with is_active true or false.
Profile == {"none", "active", "blocked"}

\* The value a session has not written.
Keep == "keep"

VARIABLES
    role,         \* users.role, by telegram_id
    profile,      \* masters.is_active, by user_id
    pc,           \* where the handler of a session stands
    target,       \* the user whose card is on the screen, or who writes
    new_role,     \* the role of the button
    old_role,     \* target.role, as loaded into the identity map; "absent" to the end
                  \* in a session that has found no row
    found,        \* the master profile, as loaded
    userWrite,    \* users.role written and not committed, or Keep
    masterWrite,  \* masters.is_active written and not committed, or Keep
    outrun        \* history: sessions during which another one committed a change

vars == <<role, profile, pc, target, new_role, old_role, found,
          userWrite, masterWrite, outrun>>

TypeOK ==
    /\ role \in [People -> User]
    /\ profile \in [People -> Profile]
    /\ pc \in [Sessions -> {"idle", "insert_user", "get_target", "count_admins", "set_role",
                            "select_master", "flush_master",
                            "get_master", "flush_toggle", "commit"}]
    /\ target \in [Sessions -> People \cup {Nobody}]
    /\ new_role \in [Sessions -> UserRole]
    /\ old_role \in [Sessions -> User]
    /\ found \in [Sessions -> Profile]
    /\ userWrite \in [Sessions -> UserRole \cup {Keep}]
    /\ masterWrite \in [Sessions -> {"active", "blocked", Keep}]
    /\ outrun \subseteq Sessions

Admins == {u \in People : role[u] = "admin"}

\* The bootstrap script has run once; nobody else is registered yet.
Init ==
    /\ \E first \in People :
           role = [u \in People |-> IF u = first THEN "admin" ELSE "absent"]
    /\ profile = [u \in People |-> "none"]
    /\ pc = [s \in Sessions |-> "idle"]
    /\ target = [s \in Sessions |-> Nobody]
    /\ new_role = [s \in Sessions |-> "client"]
    /\ old_role = [s \in Sessions |-> "client"]
    /\ found = [s \in Sessions |-> "none"]
    /\ userWrite = [s \in Sessions |-> Keep]
    /\ masterWrite = [s \in Sessions |-> Keep]
    /\ outrun = {}

-----------------------------------------------------------------------------
(* Row locks and the end of a transaction                                  *)

\* No other session has an uncommitted version of the row of u in `users'.
UserRowFree(s, u) ==
    \A q \in Sessions \ {s} : target[q] = u => userWrite[q] = Keep

\* ... of the row of u in `masters', its unique user_id included.
MasterRowFree(s, u) ==
    \A q \in Sessions \ {s} : target[q] = u => masterWrite[q] = Keep

\* Mutant: an attribute that was not set is written too.
OrNothing(write, old) == write

\* The value of a column in the version of the row a session commits.
Or(write, old) == IF write = Keep THEN old ELSE write

\* The transaction of s is over; nothing of the session outlives the update.
Close(s) ==
    /\ pc' = [pc EXCEPT ![s] = "idle"]
    /\ target' = [target EXCEPT ![s] = Nobody]
    /\ new_role' = [new_role EXCEPT ![s] = "client"]
    /\ old_role' = [old_role EXCEPT ![s] = "client"]
    /\ found' = [found EXCEPT ![s] = "none"]
    /\ userWrite' = [userWrite EXCEPT ![s] = Keep]
    /\ masterWrite' = [masterWrite EXCEPT ![s] = Keep]

Rollback(s) ==
    /\ Close(s)
    /\ outrun' = outrun \ {s}
    /\ UNCHANGED <<role, profile>>

\* The other sessions in flight, if s has written anything.
Outruns(s) ==
    {q \in Sessions \ {s} : pc[q] # "idle" /\ {userWrite[s], masterWrite[s]} # {Keep}}

\* session.commit(), for every handler of this module.
Commit(s) ==
    /\ pc[s] = "commit"
    /\ role' = [role EXCEPT ![target[s]] = Or(userWrite[s], @)]
    /\ profile' = [profile EXCEPT ![target[s]] = Or(masterWrite[s], @)]
    /\ outrun' = (outrun \cup Outruns(s)) \ {s}
    /\ Close(s)

-----------------------------------------------------------------------------
(* get_or_create                                                           *)

\* The first update of a user: the middleware finds no row.
FirstUpdate(s, u) ==
    /\ pc[s] = "idle"
    /\ role[u] = "absent"
    /\ pc' = [pc EXCEPT ![s] = "insert_user"]
    /\ target' = [target EXCEPT ![s] = u]
    /\ old_role' = [old_role EXCEPT ![s] = "absent"]
    /\ UNCHANGED <<role, profile, new_role, found, userWrite, masterWrite, outrun>>

\* Mutant: the INSERT does not wait for one of the same telegram_id.
InsertUserAtOnce(s) ==
    /\ pc[s] = "insert_user"
    /\ role[target[s]] = "absent"
    /\ userWrite' = [userWrite EXCEPT ![s] = "client"]
    /\ pc' = [pc EXCEPT ![s] = IF new_role[s] = "client" THEN "commit" ELSE "set_role"]
    /\ UNCHANGED <<role, profile, target, new_role, old_role, found, masterWrite, outrun>>

\* The INSERT, with the role of a client.  The middleware commits it, the
\* script goes on with set_role.
InsertUser(s) ==
    /\ pc[s] = "insert_user"
    /\ UserRowFree(s, target[s]) /\ role[target[s]] = "absent"
    /\ userWrite' = [userWrite EXCEPT ![s] = "client"]
    /\ pc' = [pc EXCEPT ![s] = IF new_role[s] = "client" THEN "commit" ELSE "set_role"]
    /\ UNCHANGED <<role, profile, target, new_role, old_role, found, masterWrite, outrun>>

\* Another session was first: the update is handled without a user, so that
\* no RoleFilter lets it pass; the script ends with an error.
InsertRefused(s) ==
    /\ pc[s] = "insert_user"
    /\ UserRowFree(s, target[s]) /\ role[target[s]] # "absent"
    /\ Rollback(s)

-----------------------------------------------------------------------------
(* cb_set_role                                                             *)

\* An admin presses a role button.  The middleware has loaded the presser:
\* where the target is the presser, get_by_id finds that object in the
\* identity map and asks nothing.
PressRole(s, by, u, r) ==
    /\ pc[s] = "idle"
    /\ role[by] = "admin" /\ role[u] # "absent"
    /\ pc' = [pc EXCEPT ![s] = IF u = by THEN "count_admins" ELSE "get_target"]
    /\ target' = [target EXCEPT ![s] = u]
    /\ new_role' = [new_role EXCEPT ![s] = r]
    /\ old_role' = [old_role EXCEPT ![s] = IF u = by THEN "admin" ELSE "client"]
    /\ UNCHANGED <<role, profile, found, userWrite, masterWrite, outrun>>

\* repo.get_by_id(user_id): SELECT.
GetTarget(s) ==
    /\ pc[s] = "get_target"
    /\ old_role' = [old_role EXCEPT ![s] = role[target[s]]]
    /\ pc' = [pc EXCEPT ![s] = "count_admins"]
    /\ UNCHANGED <<role, profile, target, new_role, found, userWrite, masterWrite, outrun>>

\* The condition under which the code counts the admins at all.
Demotes(s) == old_role[s] = "admin" /\ new_role[s] # "admin"

\* Mutant: the guard forgets the one who remains.
LastAdminNone(s) == Demotes(s) /\ Cardinality(Admins) < 1

\* len(await repo.get_admin_telegram_ids()) <= 1
LastAdmin(s) == Demotes(s) /\ Cardinality(Admins) <= 1

\* "Cannot take the role from the last administrator."
RefuseLastAdmin(s) ==
    /\ pc[s] = "count_admins"
    /\ LastAdmin(s)
    /\ Rollback(s)

PassAdminGuard(s) ==
    /\ pc[s] = "count_admins"
    /\ ~LastAdmin(s)
    /\ pc' = [pc EXCEPT ![s] = "set_role"]
    /\ UNCHANGED <<role, profile, target, new_role, old_role, found,
                   userWrite, masterWrite, outrun>>

-----------------------------------------------------------------------------
(* UserRepository.set_role                                                 *)

\* Mutant: the UPDATE waits for no row lock.
SetRoleAtOnce(s) ==
    /\ pc[s] = "set_role"
    /\ userWrite' = [userWrite EXCEPT ![s] =
           IF new_role[s] # old_role[s] THEN new_role[s] ELSE Keep]
    /\ pc' = [pc EXCEPT ![s] = "select_master"]
    /\ UNCHANGED <<role, profile, target, new_role, old_role, found, masterWrite, outrun>>

\* user.role = role: the UPDATE goes out before the SELECT of the profile, if
\* the value is new to the session, and waits for the row.
SetRole(s) ==
    /\ pc[s] = "set_role"
    /\ new_role[s] # old_role[s] => UserRowFree(s, target[s])
    /\ userWrite' = [userWrite EXCEPT ![s] =
           IF new_role[s] # old_role[s] THEN new_role[s] ELSE Keep]
    /\ pc' = [pc EXCEPT ![s] = "select_master"]
    /\ UNCHANGED <<role, profile, target, new_role, old_role, found, masterWrite, outrun>>

\* SELECT ... FROM masters WHERE user_id = ...
SelectMaster(s) ==
    /\ pc[s] = "select_master"
    /\ found' = [found EXCEPT ![s] = profile[target[s]]]
    /\ pc' = [pc EXCEPT ![s] = "flush_master"]
    /\ UNCHANGED <<role, profile, target, new_role, old_role, userWrite, masterWrite, outrun>>

\* Mutant: an administrator is no master, but remains bookable.
StepsDownToClient(s) ==
    old_role[s] = "master" /\ found[s] # "none" /\ new_role[s] = "client"

\* Mutant: whoever becomes no master is blocked, whatever he was before.
StepsDownAlways(s) == found[s] # "none"

\* elif old_role == UserRole.MASTER and master is not None
StepsDown(s) == old_role[s] = "master" /\ found[s] # "none"

\* Mutant: a profile is reactivated and never created.
ProfileAfterReactivates(s) ==
    IF new_role[s] = "master" /\ found[s] # "none" THEN "active"
    ELSE IF StepsDown(s) THEN "blocked" ELSE found[s]

\* What set_role leaves in the profile object: created or reactivated,
\* deactivated, or untouched.
ProfileAfter(s) ==
    IF new_role[s] = "master" THEN "active"
    ELSE IF StepsDown(s) THEN "blocked" ELSE found[s]

\* The INSERT (with the default week), the UPDATE, or nothing to flush.  That
\* the INSERT never meets a row of the same user is NoSecondProfile below.
FlushMaster(s) ==
    /\ pc[s] = "flush_master"
    /\ ProfileAfter(s) # found[s] => MasterRowFree(s, target[s])
    /\ masterWrite' = [masterWrite EXCEPT ![s] =
           IF ProfileAfter(s) # found[s] THEN ProfileAfter(s) ELSE Keep]
    /\ pc' = [pc EXCEPT ![s] = "commit"]
    /\ UNCHANGED <<role, profile, target, new_role, old_role, found, userWrite, outrun>>

\* scripts/grant_admin: get_or_create, then set_role, with no guard.
Grant(s, u) ==
    /\ pc[s] = "idle"
    /\ target' = [target EXCEPT ![s] = u]
    /\ new_role' = [new_role EXCEPT ![s] = "admin"]
    /\ old_role' = [old_role EXCEPT ![s] = role[u]]
    /\ pc' = [pc EXCEPT ![s] = IF role[u] = "absent" THEN "insert_user" ELSE "set_role"]
    /\ UNCHANGED <<role, profile, found, userWrite, masterWrite, outrun>>

-----------------------------------------------------------------------------
(* cb_toggle_master                                                        *)

\* An admin presses block or unblock on the card of a master.
PressToggle(s, by, u) ==
    /\ pc[s] = "idle"
    /\ role[by] = "admin"
    /\ profile[u] # "none"
    /\ target' = [target EXCEPT ![s] = u]
    /\ pc' = [pc EXCEPT ![s] = "get_master"]
    /\ UNCHANGED <<role, profile, new_role, old_role, found, userWrite, masterWrite, outrun>>

\* session.get(Master, master_id)
GetMaster(s) ==
    /\ pc[s] = "get_master"
    /\ found' = [found EXCEPT ![s] = profile[target[s]]]
    /\ pc' = [pc EXCEPT ![s] = "flush_toggle"]
    /\ UNCHANGED <<role, profile, target, new_role, old_role, userWrite, masterWrite, outrun>>

\* Mutant: blocking a master takes his role as well, after the profile.
FlushToggleThenRole(s) ==
    /\ pc[s] = "flush_toggle"
    /\ MasterRowFree(s, target[s])
    /\ masterWrite' = [masterWrite EXCEPT ![s] =
           IF found[s] = "active" THEN "blocked" ELSE "active"]
    /\ old_role' = [old_role EXCEPT ![s] = role[target[s]]]
    /\ pc' = [pc EXCEPT ![s] = "set_role"]
    /\ UNCHANGED <<role, profile, target, new_role, found, userWrite, outrun>>

\* master.is_active = not master.is_active: the opposite of what was loaded.
FlushToggle(s) ==
    /\ pc[s] = "flush_toggle"
    /\ MasterRowFree(s, target[s])
    /\ masterWrite' = [masterWrite EXCEPT ![s] =
           IF found[s] = "active" THEN "blocked" ELSE "active"]
    /\ pc' = [pc EXCEPT ![s] = "commit"]
    /\ UNCHANGED <<role, profile, target, new_role, old_role, found, userWrite, outrun>>

-----------------------------------------------------------------------------
\* SQLAlchemyError, or the process of the session dies.
DbError(s) == pc[s] # "idle" /\ Rollback(s)

Press(s) ==
    \/ \E by, u \in People, r \in UserRole : PressRole(s, by, u, r)
    \/ \E by, u \in People : PressToggle(s, by, u)
    \/ \E u \in People : Grant(s, u) \/ FirstUpdate(s, u)

Proceed(s) ==
    \/ InsertUser(s) \/ InsertRefused(s)
    \/ GetTarget(s) \/ RefuseLastAdmin(s) \/ PassAdminGuard(s)
    \/ SetRole(s) \/ SelectMaster(s)
    \/ FlushMaster(s)
    \/ GetMaster(s) \/ FlushToggle(s)
    \/ Commit(s)

Next == \E s \in Sessions : Press(s) \/ Proceed(s) \/ DbError(s)

Spec == Init /\ [][Next]_vars

-----------------------------------------------------------------------------
(* Properties                                                              *)

\* Whoever has the role of a master has a profile, blocked or not: /schedule
\* never answers a master that no profile is linked to the account.
MasterHasProfile ==
    \A u \in People : role[u] = "master" => profile[u] # "none"

\* Two admins who make the same person a master never create two profiles,
\* so that uq_masters_user_id never turns one of them down: the UPDATE of
\* the user's role, flushed before the profile is looked for, makes the
\* second wait until it can find the profile of the first.
NoSecondProfile ==
    \A s \in Sessions :
        /\ pc[s] = "flush_master"
        /\ found[s] = "none"
        /\ new_role[s] = "master"
        => /\ profile[target[s]] = "none"
           /\ MasterRowFree(s, target[s])

\* A user is inserted once: when the owner's first message and the script
\* that makes the owner an administrator both find no row, the one that comes
\* second is turned down and never writes its role over the other.
RegisteredOnce ==
    \A s \in Sessions :
        old_role[s] = "absent" /\ userWrite[s] # Keep => role[target[s]] = "absent"

\* Whose end of transaction session s waits for: the holder of the row its
\* statement has to lock.
WaitsFor(s, q) ==
    /\ s # q /\ target[s] = target[q]
    /\ \/ /\ userWrite[q] # Keep
          /\ \/ pc[s] = "insert_user"
             \/ pc[s] = "set_role" /\ new_role[s] # old_role[s]
       \/ /\ masterWrite[q] # Keep
          /\ \/ pc[s] = "flush_master" /\ ProfileAfter(s) # found[s]
             \/ pc[s] = "flush_toggle"

\* No set of sessions ever waits in a circle, although the code orders its
\* locks nowhere: whoever waits for a row of `users' holds nothing, and whoever
\* holds a row of `masters' has only to commit.
NoCircularWait ==
    \A circle \in (SUBSET Sessions) \ {{}} :
        \E s \in circle : \A q \in circle : ~WaitsFor(s, q)

\* The guard of the last administrator, with other sessions at work on locks
\* and rollbacks of their own: a commit takes the last administrator away
\* only if another session has committed a change since it began.
LastAdminKept ==
    [][\A s \in Sessions \ outrun :
           Commit(s) /\ Admins # {} => Admins' # {}]_vars

\* Nobody who is not a master stays bookable: a commit that takes the role
\* from a master leaves the profile inactive, unless another session has
\* committed a change since it began.
DemotionBlocksAlone ==
    [][\A s \in Sessions \ outrun, u \in People :
           Commit(s) /\ role[u] = "master" /\ role'[u] # "master"
           => profile'[u] # "active"]_vars

\* The profile set_role promises, for the roles before and after: created or
\* reactivated, deactivated, or as it was.
Synced(old, new, was) ==
    IF new = "master" THEN "active"
    ELSE IF old = "master" /\ was = "active" THEN "blocked" ELSE was

Opposite(was) == IF was = "active" THEN "blocked" ELSE "active"

\* The press of a block button is the only update that changes a profile with
\* no role in sight.
Toggles(s) == new_role[s] = "client" /\ old_role[s] = "client" /\ masterWrite[s] # Keep

\* set_role, toggle_master and the registration behave as if each were a single
\* step on the tables as they are at its commit, the profile in step with the
\* role, unless another session has committed a change since it began.
CommitAsIfAlone ==
    [][\A s \in Sessions \ outrun :
           Commit(s) =>
               LET u == target[s]
               IN  /\ <<role'[u], profile'[u]>> =
                          IF Toggles(s) THEN <<role[u], Opposite(profile[u])>>
                          ELSE <<new_role[s], Synced(role[u], new_role[s], profile[u])>>
                   /\ \A v \in People \ {u} :
                          role'[v] = role[v] /\ profile'[v] = profile[v]]_vars

\* cb_set_role, "with protection against taking the role from the last
\* admin": once there is an administrator there always is one.
AdminRemains == Admins # {}

\* set_role, "demotion from MASTER deactivates the profile": the commit that
\* takes the role from a master leaves the profile inactive.
DemotionBlocks ==
    [][\A u \in People :
           role[u] = "master" /\ role'[u] # "master" => profile'[u] # "active"]_vars

=============================================================================
