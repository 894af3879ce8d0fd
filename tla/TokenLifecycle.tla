--------------------------- MODULE TokenLifecycle ---------------------------
(***************************************************************************)
(* Tokens from login to expiry: the guard of every admin route             *)
(* (src/auth/middleware.ts), login, refresh and logout                     *)
(* (src/routes/auth.ts), and users, whose deletion revokes their tokens    *)
(* (src/routes/users.ts).  A token proves itself by its signature; D1 only *)
(* says whether it was revoked, and KV keeps markers of revocations that   *)
(* were noticed, for when D1 does not answer.                              *)
(*                                                                         *)
(* A token stands for its text, its hash and its jti.  Its type follows    *)
(* from its subject and is left out.  The guard admits tokens of both      *)
(* types to every route.  A D1 or KV call that fails changes nothing.      *)
(***************************************************************************)
EXTENDS Integers

CONSTANTS
  Token, NoToken,
  User, Admin,      \* subjects of tokens
  Req,              \* identities of concurrently served requests
  AdminTTL,         \* TOKEN_TTL.ADMIN, in clock ticks
  UserTTL,          \* TOKEN_TTL.USER
  MarkerTTL,        \* REVOCATION_MARKER_TTL
  MaxFlight,        \* longest life of a request, in clock ticks
  MaxTime,          \* bound: the clock stops here
  MaxChanges        \* bound: guarded requests that write, ever begun

Subject == User \cup {Admin}

ASSUME TokenAssumption ==
  /\ Admin \notin User
  /\ AdminTTL \in Nat \ {0} /\ UserTTL \in Nat \ {0}
  /\ MarkerTTL \in Nat \ {0}
  /\ MaxFlight \in Nat /\ MaxTime \in Nat /\ MaxChanges \in Nat

VARIABLES
  issued,    \* what each token signs
  row,       \* rows of the table tokens
  users,     \* the table users, and who was in it: ids are never reused
  marker,    \* KV entries revoke:{hash}: when each expires, 0 if absent
  inflight,  \* requests being served
  verdict,   \* what the guard decided in the last step, if it did
  now,
  begun,     \* how many guarded requests that write began
  retired,   \* observer: tokens whose row was marked revoked
  sealed     \* observer: when the marker of each was last put, 0 if never

vars == <<issued, row, users, marker, inflight, verdict, now, begun,
          retired, sealed>>

-----------------------------------------------------------------------------
(* excused: observer, the token may be live though its user is deleted; it *)
(* may not if it existed when the deletion began, or if it was issued to a *)
(* user already deleted, unless D1 left the guard blind or the token it    *)
(* replaces was excused.                                                   *)
Payload == [sub : Subject, exp : Nat, excused : BOOLEAN]
NotSigned == [exp |-> 0]

Phase == {"recording", "checking", "marking", "consulting", "retiring",
          "leaving", "finding", "revoking", "removing", "looking",
          "issuing", "creating"}

(* sub: the user the request is about, or the subject of its new token;    *)
(* retired, sealed, gone: observers, as they were when the request began;  *)
(* old: observer, the tokens its user then had, if it deletes one.         *)
Request == [id : Req, op : {"login", "use", "refresh", "logout", "delete",
                            "issue", "create"},
            tok : Token \cup {NoToken}, sub : Subject, phase : Phase,
            blind : BOOLEAN, retired : BOOLEAN, sealed : Nat,
            gone : SUBSET User, old : SUBSET Token, start : Nat]

Verdict == [tok : Token, admitted : BOOLEAN, blind : BOOLEAN, deaf : BOOLEAN,
            retired : BOOLEAN, sealed : Nat]

Signed == {t \in Token : issued[t] # NotSigned}
TokensOf(u) == {t \in Signed : issued[t].sub = u}
Free(id) == \A q \in inflight : q.id # id
Silent == verdict' = {}

Init ==
  /\ issued = [t \in Token |-> NotSigned]
  /\ row = [t \in Token |-> "none"]
  /\ users = [u \in User |-> "none"]
  /\ marker = [t \in Token |-> 0]
  /\ inflight = {}
  /\ verdict = {}
  /\ now = 1
  /\ begun = 0
  /\ retired = {}
  /\ sealed = [t \in Token |-> 0]

Move(q, ph) == inflight' = (inflight \ {q}) \cup {[q EXCEPT !.phase = ph]}
Finish(q) == inflight' = inflight \ {q}

-----------------------------------------------------------------------------
(* A request with the right AUTH_TOKEN.                                    *)
StartLogin(id) ==
  /\ Free(id)
  /\ inflight' = inflight \cup
       {[id |-> id, op |-> "login", tok |-> NoToken, sub |-> Admin,
         phase |-> "recording", blind |-> FALSE, retired |-> FALSE,
         sealed |-> 0, gone |-> {}, old |-> {}, start |-> now]}
  /\ Silent
  /\ UNCHANGED <<issued, row, users, marker, now, begun, retired, sealed>>

(* A request whose token verifies; any other is turned away at once.       *)
StartGuarded(id, op, t, u) ==
  /\ Free(id)
  /\ t \in Signed /\ issued[t].exp >= now
  /\ inflight' = inflight \cup
       {[id |-> id, op |-> op, tok |-> t,
         sub |-> IF op = "refresh" THEN issued[t].sub ELSE u,
         phase |-> "checking", blind |-> FALSE, retired |-> t \in retired,
         sealed |-> sealed[t], gone |-> {v \in User : users[v] = "deleted"},
         old |-> IF op = "delete" THEN TokensOf(u) ELSE {},
         start |-> now]}
  /\ \/ op = "use" /\ UNCHANGED begun
     \/ op # "use" /\ begun < MaxChanges /\ begun' = begun + 1
  /\ Silent
  /\ UNCHANGED <<issued, row, users, marker, now, retired, sealed>>

-----------------------------------------------------------------------------
FirstPhase(op) ==
  CASE op = "refresh" -> "retiring"
    [] op = "logout" -> "leaving"
    [] op = "delete" -> "finding"
    [] op = "issue" -> "looking"
    [] op = "create" -> "creating"

Decide(q, admitted, blind, deaf) ==
  verdict' = {[tok |-> q.tok, admitted |-> admitted, blind |-> blind,
               deaf |-> deaf, retired |-> q.retired, sealed |-> q.sealed]}

(* next(): the handler runs up to its first await.                         *)
Admit(q, blind, deaf) ==
  /\ Decide(q, TRUE, blind, deaf)
  /\ IF q.op = "use" THEN Finish(q)
     ELSE inflight' = (inflight \ {q}) \cup
            {[q EXCEPT !.phase = FirstPhase(q.op), !.blind = blind,
                       !.retired = FALSE, !.sealed = 0]}

(* Mutation of CheckRow: a token without a row counts as revoked.          *)
CheckRowStrict(q) ==
  /\ q.phase = "checking"
  /\ \/ /\ row[q.tok] # "live"
        /\ Move(q, "marking")
        /\ Silent
     \/ /\ row[q.tok] = "live"
        /\ Admit(q, FALSE, FALSE)
  /\ UNCHANGED <<issued, row, users, marker, now, begun, retired, sealed>>

CheckRow(q) ==
  /\ q.phase = "checking"
  /\ \/ /\ row[q.tok] = "revoked"
        /\ Move(q, "marking")
        /\ Silent
     \/ /\ row[q.tok] # "revoked"
        /\ Admit(q, FALSE, FALSE)
  /\ UNCHANGED <<issued, row, users, marker, now, begun, retired, sealed>>

CheckFails(q) ==
  /\ q.phase = "checking"
  /\ Move(q, "consulting")
  /\ Silent
  /\ UNCHANGED <<issued, row, users, marker, now, begun, retired, sealed>>

(* Mutation of PutMarker: the marker lives one tick less.                  *)
PutMarkerShort(q) ==
  /\ q.phase = "marking"
  /\ marker' = [marker EXCEPT ![q.tok] = now + MarkerTTL - 1]
  /\ sealed' = [sealed EXCEPT ![q.tok] = now]
  /\ Decide(q, FALSE, FALSE, FALSE)
  /\ Finish(q)
  /\ UNCHANGED <<issued, row, users, now, begun, retired>>

(* Mutation of PutMarker: the lifetime is taken off instead of added.      *)
PutMarkerBackdated(q) ==
  /\ q.phase = "marking"
  /\ marker' = [marker EXCEPT ![q.tok] = now - MarkerTTL]
  /\ sealed' = [sealed EXCEPT ![q.tok] = now]
  /\ Decide(q, FALSE, FALSE, FALSE)
  /\ Finish(q)
  /\ UNCHANGED <<issued, row, users, now, begun, retired>>

(* The put is best-effort: with or without it the answer is 401.           *)
PutMarker(q) ==
  /\ q.phase = "marking"
  /\ \/ /\ marker' = [marker EXCEPT ![q.tok] = now + MarkerTTL]
        /\ sealed' = [sealed EXCEPT ![q.tok] = now]
     \/ UNCHANGED <<marker, sealed>>
  /\ Decide(q, FALSE, FALSE, FALSE)
  /\ Finish(q)
  /\ UNCHANGED <<issued, row, users, now, begun, retired>>

Consult(q) ==
  /\ q.phase = "consulting"
  /\ \/ /\ marker[q.tok] # 0
        /\ Decide(q, FALSE, TRUE, FALSE)
        /\ Finish(q)
     \/ /\ marker[q.tok] = 0
        /\ Admit(q, TRUE, FALSE)
  /\ UNCHANGED <<issued, row, users, marker, now, begun, retired, sealed>>

(* "KV also unavailable — fall through (fail open)".                       *)
ConsultFails(q) ==
  /\ q.phase = "consulting"
  /\ Admit(q, TRUE, TRUE)
  /\ UNCHANGED <<issued, row, users, marker, now, begun, retired, sealed>>

-----------------------------------------------------------------------------
Revoke(S) ==
  /\ row' = [t \in Token |->
               IF t \in S /\ row[t] # "none" THEN "revoked" ELSE row[t]]
  /\ retired' = retired \cup {t \in S : row[t] # "none"}

(* Mutation of Leave: the row is deleted.                                  *)
LeaveByDelete(q) ==
  /\ q.phase = "leaving"
  /\ row' = [row EXCEPT ![q.tok] = "none"]
  /\ retired' = IF row[q.tok] = "none" THEN retired ELSE retired \cup {q.tok}
  /\ Finish(q)
  /\ Silent
  /\ UNCHANGED <<issued, users, marker, now, begun, sealed>>

Leave(q) ==
  /\ q.phase = "leaving"
  /\ Revoke({q.tok})
  /\ Finish(q)
  /\ Silent
  /\ UNCHANGED <<issued, users, marker, now, begun, sealed>>

Retire(q) ==
  /\ q.phase = "retiring"
  /\ Revoke({q.tok})
  /\ Move(q, "issuing")
  /\ Silent
  /\ UNCHANGED <<issued, users, marker, now, begun, sealed>>

Lifetime(q) == IF q.op = "issue" THEN UserTTL ELSE AdminTTL

Sign(q, t) ==
  /\ t \notin Signed
  /\ issued' = [issued EXCEPT ![t] =
       [sub |-> q.sub, exp |-> now + Lifetime(q),
        excused |-> \/ q.sub \notin q.gone
                    \/ q.blind
                    \/ q.op = "refresh" /\ issued[q.tok].excused]]

(* The new token of a refresh, or of a user: signed, recorded, answered.   *)
Issue(q, t) ==
  /\ q.phase = "issuing"
  /\ Sign(q, t)
  /\ row' = [row EXCEPT ![t] = "live"]
  /\ Finish(q)
  /\ Silent
  /\ UNCHANGED <<users, marker, now, begun, retired, sealed>>

(* A login is answered whether or not its token could be recorded.         *)
RecordLogin(q, t) ==
  /\ q.phase = "recording"
  /\ Sign(q, t)
  /\ \/ row' = [row EXCEPT ![t] = "live"]
     \/ UNCHANGED row
  /\ Finish(q)
  /\ Silent
  /\ UNCHANGED <<users, marker, now, begun, retired, sealed>>

-----------------------------------------------------------------------------
CreateUser(q) ==
  /\ q.phase = "creating"
  /\ users[q.sub] = "none"
  /\ users' = [users EXCEPT ![q.sub] = "present"]
  /\ Finish(q)
  /\ Silent
  /\ UNCHANGED <<issued, row, marker, now, begun, retired, sealed>>

(* The SELECT that opens the deletion of a user and the issue of a token.  *)
FindUser(q) ==
  /\ q.phase \in {"finding", "looking"}
  /\ IF users[q.sub] # "present" THEN Finish(q)
     ELSE Move(q, IF q.phase = "finding" THEN "revoking" ELSE "issuing")
  /\ Silent
  /\ UNCHANGED <<issued, row, users, marker, now, begun, retired, sealed>>

(* Mutation of RevokeUser: only the newest tokens are revoked.             *)
RevokeUserFresh(q) ==
  /\ q.phase = "revoking"
  /\ Revoke({t \in TokensOf(q.sub) : issued[t].exp > now + AdminTTL})
  /\ Move(q, "removing")
  /\ Silent
  /\ UNCHANGED <<issued, users, marker, now, begun, sealed>>

RevokeUser(q) ==
  /\ q.phase = "revoking"
  /\ Revoke(TokensOf(q.sub))
  /\ Move(q, "removing")
  /\ Silent
  /\ UNCHANGED <<issued, users, marker, now, begun, sealed>>

RemoveUser(q) ==
  /\ q.phase = "removing"
  /\ users' = [users EXCEPT ![q.sub] = "deleted"]
  /\ issued' = IF users[q.sub] = "deleted" THEN issued
               ELSE [t \in Token |-> IF t \in q.old
                                     THEN [issued[t] EXCEPT !.excused = FALSE]
                                     ELSE issued[t]]
  /\ Finish(q)
  /\ Silent
  /\ UNCHANGED <<row, marker, now, begun, retired, sealed>>

(* A D1 call of a handler throws, or the process stops at any await: the   *)
(* request ends, and what was written stays.                               *)
Abort(q) ==
  /\ Finish(q)
  /\ Silent
  /\ UNCHANGED <<issued, row, users, marker, now, begun, retired, sealed>>

-----------------------------------------------------------------------------
(* Time: KV drops the markers that expired; no request outlives MaxFlight. *)
Tick ==
  /\ now < MaxTime
  /\ \A q \in inflight : now - q.start < MaxFlight
  /\ now' = now + 1
  /\ marker' = [t \in Token |-> IF marker[t] > now + 1 THEN marker[t] ELSE 0]
  /\ Silent
  /\ UNCHANGED <<issued, row, users, inflight, begun, retired, sealed>>

Start(id) ==
  \/ StartLogin(id)
  \/ \E t \in Token :
       \/ \E op \in {"use", "refresh", "logout"} :
            StartGuarded(id, op, t, Admin)
       \/ \E op \in {"delete", "issue", "create"}, u \in User :
            StartGuarded(id, op, t, u)

Step(q) ==
  \/ CheckRow(q) \/ CheckFails(q) \/ PutMarker(q)
  \/ Consult(q) \/ ConsultFails(q)
  \/ Leave(q) \/ Retire(q)
  \/ \E t \in Token : Issue(q, t) \/ RecordLogin(q, t)
  \/ CreateUser(q) \/ FindUser(q) \/ RevokeUser(q) \/ RemoveUser(q)
  \/ Abort(q)

Next == Tick \/ (\E id \in Req : Start(id)) \/ (\E q \in inflight : Step(q))

Spec == Init /\ [][Next]_vars

-----------------------------------------------------------------------------
TypeOK ==
  /\ issued \in [Token -> Payload \cup {NotSigned}]
  /\ row \in [Token -> {"none", "live", "revoked"}]
  /\ users \in [User -> {"none", "present", "deleted"}]
  /\ marker \in [Token -> Nat]
  /\ inflight \subseteq Request
  /\ verdict \subseteq Verdict
  /\ now \in Nat
  /\ begun \in Nat
  /\ retired \subseteq Token
  /\ sealed \in [Token -> Nat]

(* A token whose row was marked revoked before a request began - by a      *)
(* logout, a refresh or the deletion of its user - is admitted by it only  *)
(* if D1 did not answer the guard (middleware.ts:50-68).                   *)
RetiredRefused ==
  \A v \in verdict : v.admitted /\ v.retired => v.blind

(* Once a refusal has left its marker, the token is refused for the life   *)
(* of the marker even while D1 is down, unless KV is down as well          *)
(* ("so a later D1 outage can still reject tokens revoked while the DB was *)
(* healthy", middleware.ts:10-16, 57-80).                                  *)
SealedRefused ==
  \A v \in verdict :
    v.admitted /\ v.sealed # 0 => v.deaf \/ now >= v.sealed + MarkerTTL

(* The guard refuses no token that nobody revoked, recorded or not         *)
(* (middleware.ts:46-49).                                                  *)
RefusedOnlyRetired == \A v \in verdict : ~v.admitted => v.tok \in retired

(* A deleted user has no live token (users.ts:107-118), except one that a  *)
(* request overlapping the deletion issued, one that such a token was      *)
(* refreshed into, or one that a refresh issued while D1 left it blind.    *)
OrphansExcused ==
  \A t \in Signed :
    /\ issued[t].sub \in User
    /\ users[issued[t].sub] = "deleted"
    /\ row[t] = "live"
    => issued[t].excused
=============================================================================
