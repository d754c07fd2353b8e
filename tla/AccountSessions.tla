--------------------------- MODULE AccountSessions ---------------------------
(***************************************************************************)
(* Accounts (users/mod.rs, routes/users.rs), their login sessions          *)
(* (auth/sessions.rs) and the streams that report a session's state        *)
(* (auth/events.rs).                                                       *)
(*                                                                         *)
(* An administrator's request is authorised when it arrives, reads the row *)
(* it is about and decides its guards later, and changes rows in one       *)
(* transaction after that.  No lock is held in between: any number of      *)
(* requests is at any of these points.  The session cache of SessionStore  *)
(* is written and never read: it is left out.                              *)
(***************************************************************************)
EXTENDS Naturals, FiniteSets

CONSTANTS
  Accounts,     \* ids of accounts, in the order of their creation; each is used once
  Master,       \* the administrator whom the first start has made
  Sessions,     \* ids of sessions
  Askers,       \* requests of administrators that can be under way together
  MaxFields,    \* bound: fields that one update names
  MaxLapses     \* bound: sessions whose time runs out

ASSUME AccountsAssumption ==
  Accounts \subseteq Nat /\ Master \in Accounts /\ {MaxFields, MaxLapses} \subseteq Nat

NoAccount == [role |-> "none", disabled |-> FALSE, master |-> FALSE]
Removed == [NoAccount EXCEPT !.role = "deleted"]
NoSession == [of |-> Master, is |-> "none", remembered |-> FALSE]
Deleted == [NoSession EXCEPT !.is = "deleted"]
NoRequest == [op |-> "none"]
NoLogin == [at |-> "none"]
Roles == {"admin", "user"}

VARIABLES
  account,   \* users
  session,   \* sessions; an id is used once
  request,   \* how far each request of an administrator has come
  login,     \* the login whose password was verified
  refreshing,\* the sessions authorised for an extension
  streams,   \* sessions with an open stream
  lapses

accountVars == <<account, session, request, login, refreshing, streams, lapses>>

\* A field that an update does not name keeps its value.
Named(to) == {f \in DOMAIN to : to[f] # "same"}
Updates ==
  {to \in [role : Roles \cup {"same"}, disabled : {"yes", "no", "same"}, password : {"new", "same"}] :
     Cardinality(Named(to)) <= MaxFields}

AdminRequests ==
  {NoRequest} \cup [op : {"admitted"}, by : Accounts] \cup [op : {"delete"}, target : Accounts]
  \cup [op : {"update"}, target : Accounts, to : Updates]

AccountsTypeOK ==
  /\ account \in [Accounts -> [role : Roles \cup {"none", "deleted"}, disabled : BOOLEAN,
                               master : BOOLEAN]]
  /\ session \in [Sessions -> [of : Accounts, is : {"none", "live", "lapsed", "deleted"},
                               remembered : BOOLEAN]]
  /\ request \in [Askers -> AdminRequests]
  /\ login = NoLogin \/ login \in [at : {"verified"}, of : Accounts]
  /\ refreshing \subseteq Sessions /\ streams \subseteq Sessions
  /\ lapses \in 0..MaxLapses

AccountsInit ==
  /\ account = [a \in Accounts |->
                  IF a = Master THEN [role |-> "admin", disabled |-> FALSE, master |-> TRUE]
                  ELSE NoAccount]
  /\ session = [s \in Sessions |-> NoSession]
  /\ request = [c \in Askers |-> NoRequest] /\ login = NoLogin /\ refreshing = {}
  /\ streams = {}
  /\ lapses = 0

Exists(a) == account[a].role \in Roles

\* get_session_user_by_id.
Valid(s) == session[s].is = "live" /\ ~account[session[s].of].disabled

\* RequireAdmin.
ActsAsAdmin(s) == Valid(s) /\ account[session[s].of].role = "admin"

\* ensure_master_admin_on_conn.
WithMaster(t) ==
  LET admins == {a \in Accounts : t[a].role = "admin"}
      oldest == CHOOSE a \in admins : \A b \in admins : a <= b
  IN IF admins = {} \/ \E a \in Accounts : t[a].master THEN t
     ELSE [t EXCEPT ![oldest].master = TRUE]

\* Rows of the account's sessions are deleted, except one.
Revoked(a, kept) ==
  [s \in Sessions |-> IF session[s].of = a /\ session[s].is \in {"live", "lapsed"} /\ s \notin kept
                        THEN Deleted ELSE session[s]]

-----------------------------------------------------------------------------
(* Accounts                                                                *)

Answered(c) == request' = [request EXCEPT ![c] = NoRequest]

\* The RequireAdmin extractor of the handlers.
Admit(c, s) ==
  /\ request[c] = NoRequest /\ ActsAsAdmin(s)
  /\ request' = [request EXCEPT ![c] = [op |-> "admitted", by |-> session[s].of]]
  /\ UNCHANGED <<account, session, login, refreshing, streams, lapses>>

\* admin_create_user: the row is inserted under a new id.
CreateAccount(c, a, role) ==
  /\ request[c].op = "admitted" /\ account[a] = NoAccount
  /\ account' = WithMaster([account EXCEPT ![a] = [role |-> role, disabled |-> FALSE, master |-> FALSE]])
  /\ Answered(c)
  /\ UNCHANGED <<session, login, refreshing, streams, lapses>>

\* The guard as it would be without the protection of the master administrator.
SelfGuard(actor, target, to) ==
  ~(actor = target /\ (to.disabled = "yes" \/ to.role = "user"))

\* check_update_guard.
UpdateGuard(actor, target, to) ==
  /\ account[target].master =>
       /\ to.role \in {"same", account[target].role}
       /\ to.disabled \in {"same", IF account[target].disabled THEN "yes" ELSE "no"}
       /\ to.password = "new" => actor = target
  /\ ~(actor = target /\ (to.disabled = "yes" \/ to.role = "user"))

\* check_delete_guard.
DeleteGuard(actor, target) == ~account[target].master /\ actor # target

\* admin_update_user and admin_delete_user read the target and decide the guard, with the
\* actor as admitted ...
AskUpdate(c, a, to) ==
  /\ request[c].op = "admitted" /\ Exists(a) /\ UpdateGuard(request[c].by, a, to)
  /\ request' = [request EXCEPT ![c] = [op |-> "update", target |-> a, to |-> to]]
  /\ UNCHANGED <<account, session, login, refreshing, streams, lapses>>

AskDelete(c, a) ==
  /\ request[c].op = "admitted" /\ Exists(a) /\ DeleteGuard(request[c].by, a)
  /\ request' = [request EXCEPT ![c] = [op |-> "delete", target |-> a]]
  /\ UNCHANGED <<account, session, login, refreshing, streams, lapses>>

\* ... then update_user writes the fields that are named; sessions go with a password or
\* a lock.
UpdateAccount(c) ==
  /\ request[c].op = "update" /\ Exists(request[c].target)
  /\ LET a == request[c].target
         to == request[c].to
         row == [account[a] EXCEPT !.role = IF to.role = "same" THEN @ ELSE to.role,
                                   !.disabled = IF to.disabled = "same" THEN @ ELSE to.disabled = "yes"]
     IN /\ account' = WithMaster([account EXCEPT ![a] = row])
        /\ session' = IF to.password = "new" \/ to.disabled = "yes" THEN Revoked(a, {}) ELSE session
  /\ Answered(c)
  /\ UNCHANGED <<login, refreshing, streams, lapses>>

\* delete_user; the sessions go with the row (ON DELETE CASCADE).
DeleteAccount(c) ==
  /\ request[c].op = "delete" /\ Exists(request[c].target)
  /\ account' = [account EXCEPT ![request[c].target] = Removed]
  /\ session' = Revoked(request[c].target, {})
  /\ Answered(c)
  /\ UNCHANGED <<login, refreshing, streams, lapses>>

\* The guard refuses, the target is gone (404), or the transaction fails or finds its
\* snapshot outdated: nothing is written.
RequestRefused(c) ==
  /\ request[c] # NoRequest /\ Answered(c)
  /\ UNCHANGED <<account, session, login, refreshing, streams, lapses>>

\* auth_change_password_handler keeps the session it was asked with.
ChangePassword(s) ==
  /\ Valid(s)
  /\ session' = Revoked(session[s].of, {s})
  /\ UNCHANGED <<account, request, login, refreshing, streams, lapses>>

-----------------------------------------------------------------------------
(* Sessions                                                                *)

\* auth_login_handler: the row is read and the password verified ...
LoginVerifies(a) ==
  /\ login = NoLogin /\ Exists(a) /\ ~account[a].disabled
  /\ login' = [at |-> "verified", of |-> a]
  /\ UNCHANGED <<account, session, request, refreshing, streams, lapses>>

\* ... and the session inserted, unless the account is gone (its foreign key).
LoginCreates(s, remembered) ==
  /\ login # NoLogin /\ session[s].is = "none"
  /\ session' = IF Exists(login.of)
                  THEN [session EXCEPT ![s] = [of |-> login.of, is |-> "live", remembered |-> remembered]]
                  ELSE session
  /\ login' = NoLogin
  /\ UNCHANGED <<account, request, refreshing, streams, lapses>>

\* auth_logout_handler.
Logout(s) ==
  /\ session[s].is \in {"live", "lapsed"}
  /\ session' = [session EXCEPT ![s] = Deleted]
  /\ UNCHANGED <<account, request, login, refreshing, streams, lapses>>

Lapses(s) ==
  /\ session[s].is = "live" /\ lapses < MaxLapses
  /\ session' = [session EXCEPT ![s].is = "lapsed"]
  /\ lapses' = lapses + 1
  /\ UNCHANGED <<account, request, login, refreshing, streams>>

\* auth_session_handler: authorised first (a session that is not remembered is never
\* extended: its requests are left out) ...
AskRefresh(s) ==
  /\ Valid(s) /\ session[s].remembered /\ s \notin refreshing
  /\ refreshing' = refreshing \cup {s}
  /\ UNCHANGED <<account, session, request, login, streams, lapses>>

\* ... then refresh_session_if_remembered extends the row, also one that has lapsed
\* meanwhile.
Refresh(s) ==
  /\ s \in refreshing /\ refreshing' = refreshing \ {s}
  /\ session' = IF session[s].is = "lapsed" /\ session[s].remembered
                  THEN [session EXCEPT ![s].is = "live"] ELSE session
  /\ UNCHANGED <<account, request, login, streams, lapses>>

-----------------------------------------------------------------------------
(* Streams                                                                 *)

OpenStream(s) ==
  /\ Valid(s) /\ s \notin streams
  /\ streams' = streams \cup {s}
  /\ UNCHANGED <<account, session, request, login, refreshing, lapses>>

\* A stream that sends what it is told, without a look at the row.
StreamTrusts(s) ==
  /\ s \in streams
  /\ session[s].is = "deleted" \/ Valid(s)
  /\ streams' = IF Valid(s) THEN streams ELSE streams \ {s}
  /\ UNCHANGED <<account, session, request, login, refreshing, lapses>>

\* The row is read again at every event, at the report that events were missed, and
\* every STREAM_AUTH_CHECK_MS.
StreamChecks(s) ==
  /\ s \in streams
  /\ streams' = IF Valid(s) THEN streams ELSE streams \ {s}
  /\ UNCHANGED <<account, session, request, login, refreshing, lapses>>

AccountsNext ==
  \/ \E c \in Askers :
       \/ \E s \in Sessions : Admit(c, s)
       \/ \E a \in Accounts :
            \/ \E role \in Roles : CreateAccount(c, a, role)
            \/ \E to \in Updates : AskUpdate(c, a, to)
            \/ AskDelete(c, a)
       \/ UpdateAccount(c) \/ DeleteAccount(c) \/ RequestRefused(c)
  \/ \E s \in Sessions :
       \/ \E remembered \in BOOLEAN : LoginCreates(s, remembered)
       \/ ChangePassword(s) \/ Logout(s) \/ Lapses(s) \/ AskRefresh(s) \/ Refresh(s)
       \/ OpenStream(s) \/ StreamChecks(s)
  \/ \E a \in Accounts : LoginVerifies(a)

\* The ticker of an open stream fires.
AccountsFairness == \A s \in Sessions : WF_accountVars(StreamChecks(s))

AccountsSpec == AccountsInit /\ [][AccountsNext]_accountVars /\ AccountsFairness

-----------------------------------------------------------------------------
(* Properties                                                              *)

\* Administrators' requests that overlap, each admitted and guarded by rows that another
\* one has changed since, never leave the server without its master administrator,
\* enabled and alone in that (check_update_guard, check_delete_guard,
\* ensure_master_admin_on_conn).
MasterAdminStays ==
  \E a \in Accounts :
    /\ account[a].master /\ account[a].role = "admin" /\ ~account[a].disabled
    /\ \A b \in Accounts \ {a} : ~account[b].master

\* The stream of a session that has ended, by whatever of the ways and whether or
\* not an event tells it, ends too, or the session has come back.
DeadStreamEnds ==
  \A s \in Sessions : s \in streams /\ ~Valid(s) ~> s \notin streams \/ Valid(s)
=============================================================================
