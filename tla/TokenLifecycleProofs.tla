------------------------ MODULE TokenLifecycleProofs ------------------------
(***************************************************************************)
(* What the guard promises about revoked tokens, for any number of tokens, *)
(* users and overlapping requests, any lifetimes, and any failures of D1   *)
(* and KV.                                                                 *)
(***************************************************************************)
EXTENDS TokenLifecycle, TLAPS

Guarded == {"use", "refresh", "logout", "delete", "issue", "create"}

(* What the phase of a request says about its operation.                   *)
Shape(q) ==
  /\ q.op = "login" <=> q.phase = "recording"
  /\ q.op # "login" => q.tok \in Signed
  /\ q.op = "login" => q.sub = Admin /\ q.gone = {}
  /\ q.phase = "retiring" => q.op = "refresh"
  /\ q.phase = "issuing" => q.op \in {"refresh", "issue"}
  /\ q.phase \in {"finding", "revoking", "removing"} => q.op = "delete"
  /\ q.phase = "looking" => q.op = "issue"
  /\ q.phase = "creating" => q.op = "create"
  /\ q.op \in {"delete", "issue", "create"} => q.sub \in User
  /\ q.old \subseteq TokensOf(q.sub)

-----------------------------------------------------------------------------
(* A request that moves on keeps everything but its phase.                 *)
LEMMA MovedFields ==
  ASSUME NEW q \in Request, NEW ph \in Phase
  PROVE  LET r == [q EXCEPT !.phase = ph] IN
         /\ r \in Request
         /\ r.id = q.id /\ r.op = q.op /\ r.tok = q.tok /\ r.sub = q.sub
         /\ r.phase = ph /\ r.blind = q.blind /\ r.retired = q.retired
         /\ r.sealed = q.sealed /\ r.gone = q.gone /\ r.old = q.old
         /\ r.start = q.start
BY DEF Request

(* A request that the guard admits keeps its operation and its observers   *)
(* of users; those of tokens have served.                                  *)
LEMMA AdmittedFields ==
  ASSUME NEW q \in Request, NEW blind \in BOOLEAN,
         q.op \in Guarded \ {"use"}
  PROVE  LET r == [q EXCEPT !.phase = FirstPhase(q.op), !.blind = blind,
                            !.retired = FALSE, !.sealed = 0] IN
         /\ r \in Request
         /\ r.id = q.id /\ r.op = q.op /\ r.tok = q.tok /\ r.sub = q.sub
         /\ r.phase = FirstPhase(q.op) /\ r.blind = blind
         /\ r.retired = FALSE /\ r.sealed = 0 /\ r.gone = q.gone
         /\ r.old = q.old /\ r.start = q.start
<1>1. FirstPhase(q.op) \in Phase
  BY DEF FirstPhase, Phase, Guarded
<1> QED  BY <1>1 DEF Request

LEMMA FirstPhases ==
  ASSUME NEW op \in Guarded \ {"use"}
  PROVE  /\ op = "refresh" => FirstPhase(op) = "retiring"
         /\ op = "logout" => FirstPhase(op) = "leaving"
         /\ op = "delete" => FirstPhase(op) = "finding"
         /\ op = "issue" => FirstPhase(op) = "looking"
         /\ op = "create" => FirstPhase(op) = "creating"
BY DEF FirstPhase, Guarded

(* The signed content of a new token.                                      *)
LEMMA SignedFields ==
  ASSUME TypeOK, NEW q \in inflight, NEW t \in Token, Sign(q, t)
  PROVE  /\ issued' \in [Token -> Payload \cup {NotSigned}]
         /\ Signed' = Signed \cup {t} /\ t \notin Signed
         /\ \A s \in Signed : issued'[s] = issued[s]
         /\ issued'[t].sub = q.sub
         /\ issued'[t].excused <=> \/ q.sub \notin q.gone
                                   \/ q.blind
                                   \/ q.op = "refresh" /\ issued[q.tok].excused
<1> DEFINE p == [sub |-> q.sub, exp |-> now + Lifetime(q),
                 excused |-> \/ q.sub \notin q.gone
                             \/ q.blind
                             \/ q.op = "refresh" /\ issued[q.tok].excused]
<1>1. now \in Nat /\ Lifetime(q) \in Nat /\ Lifetime(q) > 0 /\ q.sub \in Subject
  BY TokenAssumption DEF TypeOK, Lifetime, Request
<1>2. p \in Payload
  BY <1>1 DEF Payload
<1>3. p.sub = q.sub /\ p.exp # 0
  BY <1>1
<1>4. p.excused <=> \/ q.sub \notin q.gone
                    \/ q.blind
                    \/ q.op = "refresh" /\ issued[q.tok].excused
  OBVIOUS
<1>5. issued' = [issued EXCEPT ![t] = p] /\ t \notin Signed
  BY DEF Sign
<1> HIDE DEF p
<1>6. p # NotSigned
  BY <1>3 DEF NotSigned
<1>7. issued' \in [Token -> Payload \cup {NotSigned}]
  BY <1>2, <1>5 DEF TypeOK
<1>8. issued'[t] = p /\ \A s \in Token \ {t} : issued'[s] = issued[s]
  BY <1>5 DEF TypeOK
<1>9. Signed' = Signed \cup {t}
  BY <1>6, <1>8 DEF Signed
<1> QED  BY <1>3, <1>4, <1>5, <1>7, <1>8, <1>9 DEF Signed
-----------------------------------------------------------------------------
(* What a request knows of the tables, and may still rely on: they only    *)
(* ever change in one direction.                                           *)
ReqInv(q) ==
  /\ Shape(q)
  /\ q.phase = "marking" => q.tok \in retired
  /\ q.retired => q.tok \in retired
  /\ q.op # "login" => q.sealed <= sealed[q.tok]
  /\ \A u \in q.gone : users[u] = "deleted"
  /\ q.phase = "removing" => \A t \in q.old : row[t] # "live"
  /\ q.op = "refresh" => q.sub = issued[q.tok].sub
  /\ q.phase \in {"retiring", "issuing"} /\ q.op = "refresh" /\ ~q.blind
       /\ q.sub \in q.gone => issued[q.tok].excused
  /\ q.phase = "issuing" /\ q.op = "issue" => q.sub \notin q.gone

(* A row is marked revoked exactly when the token was retired; only a      *)
(* retired token has a marker, which lives its time out; every token of a  *)
(* user has a row, and is excused while the user exists.                   *)
TableInv ==
  /\ \A t \in Token : row[t] = "revoked" <=> t \in retired
  /\ \A t \in Token : t \notin Signed => row[t] = "none"
  /\ \A t \in Signed : issued[t].sub \in User => row[t] # "none"
  /\ \A t \in Token : marker[t] # 0 \/ sealed[t] # 0 => t \in retired
  /\ \A t \in Token : sealed[t] # 0 => \/ marker[t] >= sealed[t] + MarkerTTL
                                       \/ now >= sealed[t] + MarkerTTL
  /\ \A t \in Token : sealed[t] <= now
  /\ \A t \in Signed : issued[t].sub \in User /\ ~issued[t].excused
                         => users[issued[t].sub] = "deleted"
  /\ OrphansExcused

VerdictInv == RetiredRefused /\ SealedRefused /\ RefusedOnlyRetired

TokenInv ==
  /\ TypeOK
  /\ \A q \in inflight : ReqInv(q)
  /\ TableInv
  /\ VerdictInv

(* The one direction.                                                      *)
Grows ==
  /\ retired \subseteq retired'
  /\ \A t \in Token : sealed[t] <= sealed'[t]
  /\ \A u \in User : users[u] = "deleted" => users'[u] = "deleted"
  /\ Signed \subseteq Signed'
  /\ \A t \in Signed : /\ issued'[t].sub = issued[t].sub
                       /\ row'[t] = "live" => row[t] = "live"
                       /\ /\ issued[t].sub \in User
                          /\ users[issued[t].sub] = "deleted"
                          /\ issued[t].excused
                          => issued'[t].excused

-----------------------------------------------------------------------------
(* A request that a step does not move loses nothing by it.                *)
LEMMA OthersKeep ==
  ASSUME TokenInv, TypeOK', Grows, NEW p \in inflight
  PROVE  ReqInv(p)'
<1>1. p \in Request /\ ReqInv(p)
  BY DEF TokenInv, TypeOK
<1>2. Shape(p)'
  BY <1>1 DEF ReqInv, Shape, Grows, TokensOf
<1>3. p.op # "login" => p.tok \in Signed /\ p.tok \in Token
  BY <1>1 DEF ReqInv, Shape, Signed
<1>4. p.op # "login" => p.sealed <= sealed'[p.tok]
  <2>1. p.sealed \in Nat /\ \A t \in Token : sealed[t] \in Nat /\ sealed'[t] \in Nat
    BY <1>1 DEF Request, TokenInv, TypeOK
  <2> QED  BY <1>1, <1>3, <2>1 DEF ReqInv, Grows
<1>5. \A u \in p.gone : users'[u] = "deleted"
  BY <1>1 DEF ReqInv, Grows, Request
<1>6. p.phase = "removing" => \A t \in p.old : row'[t] # "live"
  BY <1>1 DEF ReqInv, Shape, TokensOf, Grows
<1>7. p.op = "refresh" => p.sub = issued'[p.tok].sub
  BY <1>1, <1>3 DEF ReqInv, Grows
<1>8. p.phase \in {"retiring", "issuing"} /\ p.op = "refresh" /\ ~p.blind
        /\ p.sub \in p.gone => issued'[p.tok].excused
  <2> SUFFICES ASSUME p.phase \in {"retiring", "issuing"}, p.op = "refresh",
                      ~p.blind, p.sub \in p.gone
               PROVE  issued'[p.tok].excused
    OBVIOUS
  <2>1. /\ p.tok \in Signed /\ p.sub = issued[p.tok].sub
        /\ issued[p.tok].excused /\ p.sub \in User
        /\ users[p.sub] = "deleted"
    BY <1>1, <1>3 DEF ReqInv, Request
  <2> QED  BY <2>1 DEF Grows
<1> QED
  BY <1>1, <1>2, <1>4, <1>5, <1>6, <1>7, <1>8 DEF ReqInv, Grows

Tables == <<issued, row, users, marker, now, retired, sealed>>

(* A step that writes no table.                                            *)
LEMMA QuietTables ==
  ASSUME TokenInv, UNCHANGED Tables
  PROVE  Grows /\ TableInv' /\ Signed' = Signed
<1>1. \A t \in Token : sealed[t] \in Nat
  BY DEF TokenInv, TypeOK
<1>2. Signed' = Signed
  BY DEF Tables, Signed
<1>3. Grows
  BY <1>1, <1>2 DEF Tables, Grows
<1>4. TableInv'
  BY <1>2 DEF Tables, TokenInv, TableInv, OrphansExcused
<1> QED  BY <1>2, <1>3, <1>4

-----------------------------------------------------------------------------
(* The types of the requests and of the verdict after a step.              *)
LEMMA MoveTypes ==
  ASSUME TypeOK, NEW q \in inflight, NEW ph \in Phase, Move(q, ph)
  PROVE  inflight' \subseteq Request
<1>1. [q EXCEPT !.phase = ph] \in Request
  BY MovedFields DEF TypeOK
<1> QED  BY <1>1 DEF Move, TypeOK

LEMMA FinishTypes ==
  ASSUME TypeOK, NEW q \in inflight, Finish(q)
  PROVE  inflight' \subseteq Request
BY DEF Finish, TypeOK

LEMMA DecideTypes ==
  ASSUME TypeOK, NEW q \in inflight, q.tok \in Token,
         NEW admitted \in BOOLEAN, NEW blind \in BOOLEAN, NEW deaf \in BOOLEAN,
         Decide(q, admitted, blind, deaf)
  PROVE  /\ verdict' \subseteq Verdict
         /\ \A v \in verdict' :
              /\ v.tok = q.tok /\ v.admitted = admitted /\ v.blind = blind
              /\ v.deaf = deaf /\ v.retired = q.retired /\ v.sealed = q.sealed
<1>1. q.retired \in BOOLEAN /\ q.sealed \in Nat
  BY DEF TypeOK, Request
<1> QED  BY <1>1 DEF Decide, Verdict

LEMMA AdmitTypes ==
  ASSUME TypeOK, NEW q \in inflight, q.op # "login", q.tok \in Token,
         NEW blind \in BOOLEAN, NEW deaf \in BOOLEAN, Admit(q, blind, deaf)
  PROVE  inflight' \subseteq Request /\ verdict' \subseteq Verdict
<1>1. verdict' \subseteq Verdict
  BY DecideTypes DEF Admit
<1>2. CASE q.op = "use"
  BY <1>1, <1>2, FinishTypes DEF Admit
<1>3. CASE q.op # "use"
  <2>1. q \in Request /\ q.op \in Guarded \ {"use"}
    BY <1>3 DEF TypeOK, Request, Guarded
  <2>2. [q EXCEPT !.phase = FirstPhase(q.op), !.blind = blind,
                  !.retired = FALSE, !.sealed = 0] \in Request
    BY <2>1, AdmittedFields
  <2> QED  BY <1>1, <1>3, <2>2 DEF Admit, TypeOK
<1> QED  BY <1>2, <1>3

LEMMA RevokeTypes ==
  ASSUME TypeOK, NEW S \in SUBSET Token, Revoke(S)
  PROVE  row' \in [Token -> {"none", "live", "revoked"}] /\ retired' \subseteq Token
<1>1. row' \in [Token -> {"none", "live", "revoked"}]
  BY DEF Revoke, TypeOK
<1> QED  BY <1>1 DEF Revoke, TypeOK

(* Every step keeps the types.                                             *)
LEMMA TypeStep == TokenInv /\ [Next]_vars => TypeOK'
<1> SUFFICES ASSUME TokenInv, [Next]_vars PROVE TypeOK'
  OBVIOUS
<1> USE TokenAssumption
<1>1. TypeOK /\ \A q \in inflight : ReqInv(q) /\ Shape(q)
  BY DEF TokenInv, ReqInv
<1>2. CASE Tick
  <2>1. marker' \in [Token -> Nat]
    BY <1>1, <1>2 DEF TypeOK, Tick
  <2> QED  BY <1>1, <1>2, <2>1 DEF TypeOK, Tick, Silent
<1>3. ASSUME NEW id \in Req, StartLogin(id) PROVE TypeOK'
  <2> DEFINE r == [id |-> id, op |-> "login", tok |-> NoToken, sub |-> Admin,
                   phase |-> "recording", blind |-> FALSE, retired |-> FALSE,
                   sealed |-> 0, gone |-> {}, old |-> {}, start |-> now]
  <2>1. r \in Request
    BY <1>1 DEF TypeOK, Request, Phase, Subject
  <2>2. inflight' = inflight \cup {r}
    BY <1>3 DEF StartLogin
  <2> HIDE DEF r
  <2> QED  BY <1>1, <1>3, <2>1, <2>2 DEF StartLogin, TypeOK, Silent
<1>4. ASSUME NEW id \in Req, NEW op \in Guarded, NEW t \in Token,
             NEW u \in Subject, StartGuarded(id, op, t, u)
      PROVE  TypeOK'
  <2> DEFINE r == [id |-> id, op |-> op, tok |-> t,
                   sub |-> IF op = "refresh" THEN issued[t].sub ELSE u,
                   phase |-> "checking", blind |-> FALSE,
                   retired |-> t \in retired, sealed |-> sealed[t],
                   gone |-> {v \in User : users[v] = "deleted"},
                   old |-> IF op = "delete" THEN TokensOf(u) ELSE {},
                   start |-> now]
  <2>1. t \in Signed /\ issued[t] \in Payload
    BY <1>1, <1>4 DEF StartGuarded, Signed, TypeOK
  <2>2. r \in Request
    BY <1>1, <2>1
    DEF TypeOK, Request, Phase, Guarded, Payload, TokensOf, Signed
  <2>3. inflight' = inflight \cup {r}
    BY <1>4 DEF StartGuarded
  <2> HIDE DEF r
  <2>4. begun' \in Nat
    BY <1>1, <1>4 DEF StartGuarded, TypeOK
  <2> QED  BY <1>1, <1>4, <2>2, <2>3, <2>4 DEF StartGuarded, TypeOK, Silent
<1>5. ASSUME NEW q \in inflight, Step(q) PROVE TypeOK'
  <2>1. q \in Request /\ Shape(q) /\ now \in Nat
    BY <1>1 DEF TypeOK
  <2>2. q.op # "login" => q.tok \in Token
    BY <2>1 DEF Shape, Signed
  <2>3. CASE CheckRow(q)
    <3>1. q.op # "login" /\ "marking" \in Phase
      BY <2>1, <2>3 DEF CheckRow, Shape, Phase
    <3>2. inflight' \subseteq Request /\ verdict' \subseteq Verdict
      BY <1>1, <2>2, <2>3, <3>1, MoveTypes, AdmitTypes DEF CheckRow, Silent
    <3> QED  BY <1>1, <2>3, <3>2 DEF CheckRow, TypeOK
  <2>4. CASE CheckFails(q)
    <3>1. inflight' \subseteq Request
      BY <1>1, <2>4, MoveTypes DEF CheckFails, Phase
    <3> QED  BY <1>1, <2>4, <3>1 DEF CheckFails, TypeOK, Silent
  <2>5. CASE PutMarker(q)
    <3>1. q.op # "login"
      BY <2>1, <2>5 DEF PutMarker, Shape
    <3>2. inflight' \subseteq Request /\ verdict' \subseteq Verdict
      BY <1>1, <2>2, <2>5, <3>1, FinishTypes, DecideTypes DEF PutMarker
    <3>3. marker' \in [Token -> Nat] /\ sealed' \in [Token -> Nat]
      BY <1>1, <2>1, <2>5 DEF PutMarker, TypeOK
    <3> QED  BY <1>1, <2>5, <3>2, <3>3 DEF PutMarker, TypeOK
  <2>6. CASE Consult(q)
    <3>1. q.op # "login"
      BY <2>1, <2>6 DEF Consult, Shape
    <3>2. inflight' \subseteq Request /\ verdict' \subseteq Verdict
      BY <1>1, <2>2, <2>6, <3>1, FinishTypes, DecideTypes, AdmitTypes
      DEF Consult
    <3> QED  BY <1>1, <2>6, <3>2 DEF Consult, TypeOK
  <2>7. CASE ConsultFails(q)
    <3>1. q.op # "login"
      BY <2>1, <2>7 DEF ConsultFails, Shape
    <3>2. inflight' \subseteq Request /\ verdict' \subseteq Verdict
      BY <1>1, <2>2, <2>7, <3>1, AdmitTypes DEF ConsultFails
    <3> QED  BY <1>1, <2>7, <3>2 DEF ConsultFails, TypeOK
  <2>8. CASE Leave(q)
    <3>1. inflight' \subseteq Request
      BY <1>1, <2>8, FinishTypes DEF Leave
    <3>2. row' \in [Token -> {"none", "live", "revoked"}] /\ retired' \subseteq Token
      <4>1. q.op # "login" /\ Revoke({q.tok})
        BY <2>1, <2>8 DEF Leave, Shape
      <4>2. {q.tok} \in SUBSET Token
        BY <2>2, <4>1
      <4> QED  BY <1>1, <4>1, <4>2, RevokeTypes
    <3> QED  BY <1>1, <2>8, <3>1, <3>2 DEF Leave, TypeOK, Silent
  <2>9. CASE Retire(q)
    <3>1. inflight' \subseteq Request
      BY <1>1, <2>9, MoveTypes DEF Retire, Phase
    <3>2. row' \in [Token -> {"none", "live", "revoked"}] /\ retired' \subseteq Token
      <4>1. q.op # "login" /\ Revoke({q.tok})
        BY <2>1, <2>9 DEF Retire, Shape
      <4>2. {q.tok} \in SUBSET Token
        BY <2>2, <4>1
      <4> QED  BY <1>1, <4>1, <4>2, RevokeTypes
    <3> QED  BY <1>1, <2>9, <3>1, <3>2 DEF Retire, TypeOK, Silent
  <2>10. ASSUME NEW t \in Token, Issue(q, t) PROVE TypeOK'
    <3>1. inflight' \subseteq Request
      BY <1>1, <2>10, FinishTypes DEF Issue
    <3>2. issued' \in [Token -> Payload \cup {NotSigned}]
      BY <1>1, <2>10, SignedFields DEF Issue
    <3> QED  BY <1>1, <2>10, <3>1, <3>2 DEF Issue, TypeOK, Silent
  <2>11. ASSUME NEW t \in Token, RecordLogin(q, t) PROVE TypeOK'
    <3>1. inflight' \subseteq Request
      BY <1>1, <2>11, FinishTypes DEF RecordLogin
    <3>2. issued' \in [Token -> Payload \cup {NotSigned}]
      BY <1>1, <2>11, SignedFields DEF RecordLogin
    <3> QED  BY <1>1, <2>11, <3>1, <3>2 DEF RecordLogin, TypeOK, Silent
  <2>12. CASE CreateUser(q)
    <3>1. inflight' \subseteq Request
      BY <1>1, <2>12, FinishTypes DEF CreateUser
    <3> QED  BY <1>1, <2>12, <3>1 DEF CreateUser, TypeOK, Silent
  <2>13. CASE FindUser(q)
    <3>1. inflight' \subseteq Request
      BY <1>1, <2>13, FinishTypes, MoveTypes DEF FindUser, Phase
    <3> QED  BY <1>1, <2>13, <3>1 DEF FindUser, TypeOK, Silent
  <2>14. CASE RevokeUser(q)
    <3>1. inflight' \subseteq Request
      BY <1>1, <2>14, MoveTypes DEF RevokeUser, Phase
    <3>2. row' \in [Token -> {"none", "live", "revoked"}] /\ retired' \subseteq Token
      <4>1. Revoke(TokensOf(q.sub))
        BY <2>14 DEF RevokeUser
      <4>2. TokensOf(q.sub) \in SUBSET Token
        BY DEF TokensOf, Signed
      <4> QED  BY <1>1, <4>1, <4>2, RevokeTypes
    <3> QED  BY <1>1, <2>14, <3>1, <3>2 DEF RevokeUser, TypeOK, Silent
  <2>15. CASE RemoveUser(q)
    <3>1. inflight' \subseteq Request
      BY <1>1, <2>15, FinishTypes DEF RemoveUser
    <3>2. \A t \in q.old : issued[t] \in Payload
      BY <1>1, <2>1 DEF Shape, TokensOf, Signed, TypeOK
    <3>3. \A p \in Payload : [p EXCEPT !.excused = FALSE] \in Payload
      BY DEF Payload
    <3>4. issued' \in [Token -> Payload \cup {NotSigned}]
      BY <1>1, <2>15, <3>2, <3>3 DEF RemoveUser, TypeOK
    <3> QED  BY <1>1, <2>15, <3>1, <3>4 DEF RemoveUser, TypeOK, Silent
  <2>16. CASE Abort(q)
    <3>1. inflight' \subseteq Request
      BY <1>1, <2>16, FinishTypes DEF Abort
    <3> QED  BY <1>1, <2>16, <3>1 DEF Abort, TypeOK, Silent
  <2> QED
    BY <1>5, <2>3, <2>4, <2>5, <2>6, <2>7, <2>8, <2>9, <2>10, <2>11, <2>12,
       <2>13, <2>14, <2>15, <2>16
    DEF Step
<1>6. CASE UNCHANGED vars
  BY <1>1, <1>6 DEF TypeOK, vars
<1>7. ASSUME NEW id \in Req, Start(id) PROVE TypeOK'
  BY <1>3, <1>4, <1>7 DEF Start, Guarded, Subject
<1> QED  BY <1>2, <1>5, <1>6, <1>7 DEF Next
-----------------------------------------------------------------------------
(* The requests after a step that ends one, moves one or admits one.       *)
LEMMA FinishKeeps ==
  ASSUME TokenInv, TypeOK', Grows, NEW q \in inflight, Finish(q)
  PROVE  \A p \in inflight' : ReqInv(p)'
BY OthersKeep DEF Finish

LEMMA MoveKeeps ==
  ASSUME TokenInv, TypeOK', Grows, NEW q \in inflight, q.op # "login",
         NEW ph \in {"marking", "consulting", "revoking", "removing", "issuing"},
         Move(q, ph),
         ph = "marking" => q.tok \in retired,
         ph \in {"revoking", "removing"} => q.op = "delete",
         ph = "removing" => \A t \in q.old : row'[t] # "live",
         ph = "issuing" => \/ q.op = "refresh" /\ q.phase = "retiring"
                           \/ q.op = "issue" /\ q.sub \notin q.gone
  PROVE  \A p \in inflight' : ReqInv(p)'
<1> DEFINE r == [q EXCEPT !.phase = ph]
<1>1. q \in Request /\ ph \in Phase
  BY DEF TokenInv, TypeOK, Phase
<1>2. /\ r.op = q.op /\ r.tok = q.tok /\ r.sub = q.sub /\ r.phase = ph
      /\ r.blind = q.blind /\ r.retired = q.retired /\ r.sealed = q.sealed
      /\ r.gone = q.gone /\ r.old = q.old
  BY <1>1, MovedFields
<1>3. inflight' = (inflight \ {q}) \cup {r}
  BY DEF Move
<1> HIDE DEF r
<1>4. ReqInv(q)'
  BY OthersKeep
<1>5. retired \subseteq retired'
  BY DEF Grows
<1>6. Shape(r)'
  BY <1>2, <1>4 DEF ReqInv, Shape
<1>7. ReqInv(r)'
  BY <1>2, <1>4, <1>5, <1>6 DEF ReqInv
<1> QED  BY <1>3, <1>7, OthersKeep

LEMMA AdmitKeeps ==
  ASSUME TokenInv, TypeOK', Grows, NEW q \in inflight, q.op # "login",
         NEW blind \in BOOLEAN, NEW deaf \in BOOLEAN, Admit(q, blind, deaf),
         q.op = "refresh" /\ ~blind /\ q.sub \in q.gone
           => issued'[q.tok].excused
  PROVE  \A p \in inflight' : ReqInv(p)'
<1>1. CASE q.op = "use"
  BY <1>1, FinishKeeps DEF Admit
<1>2. CASE q.op # "use"
  <2> DEFINE r == [q EXCEPT !.phase = FirstPhase(q.op), !.blind = blind,
                            !.retired = FALSE, !.sealed = 0]
  <2>1. q \in Request /\ q.op \in Guarded \ {"use"}
    BY <1>2 DEF TokenInv, TypeOK, Request, Guarded
  <2>2. /\ r.op = q.op /\ r.tok = q.tok /\ r.sub = q.sub
        /\ r.phase = FirstPhase(q.op) /\ r.blind = blind
        /\ r.retired = FALSE /\ r.sealed = 0 /\ r.gone = q.gone
        /\ r.old = q.old
    BY <2>1 DEF Request
  <2>3. inflight' = (inflight \ {q}) \cup {r}
    BY <1>2 DEF Admit
  <2> HIDE DEF r
  <2>4. ReqInv(q)'
    BY OthersKeep
  <2>5. /\ q.op = "refresh" => r.phase = "retiring"
        /\ q.op = "logout" => r.phase = "leaving"
        /\ q.op = "delete" => r.phase = "finding"
        /\ q.op = "issue" => r.phase = "looking"
        /\ q.op = "create" => r.phase = "creating"
        /\ q.op \in {"refresh", "logout", "delete", "issue", "create"}
    BY <2>1, <2>2, FirstPhases DEF Guarded
  <2>6. Shape(r)'
    BY <2>2, <2>4, <2>5 DEF ReqInv, Shape
  <2>7. q.tok \in Token /\ sealed'[q.tok] \in Nat
    BY <2>4 DEF ReqInv, Shape, Signed, TypeOK
  <2>8. ReqInv(r)'
    BY <2>2, <2>4, <2>5, <2>6, <2>7 DEF ReqInv
  <2> QED  BY <2>3, <2>8, OthersKeep
<1> QED  BY <1>1, <1>2

-----------------------------------------------------------------------------
(* A row that is marked revoked stays so, and says that it was retired.    *)
LEMMA RevokeTables ==
  ASSUME TokenInv, NEW S \in SUBSET Token, Revoke(S),
         UNCHANGED <<issued, users, marker, now, sealed>>
  PROVE  /\ Grows /\ TableInv'
         /\ \A t \in S : row'[t] # "live"
<1>1. Signed' = Signed
  BY DEF Signed
<1>2. \A t \in Token : sealed[t] \in Nat
  BY DEF TokenInv, TypeOK
<1>3. \A t \in Token :
        row'[t] = IF t \in S /\ row[t] # "none" THEN "revoked" ELSE row[t]
  BY DEF Revoke
<1>4. Grows
  BY <1>1, <1>2, <1>3 DEF Grows, Revoke, Signed
<1>5. \A t \in Token : row'[t] = "revoked" <=> t \in retired'
  BY <1>3 DEF Revoke, TokenInv, TableInv
<1>6. OrphansExcused'
  BY <1>1, <1>3 DEF TokenInv, TableInv, OrphansExcused, Signed
<1>7. TableInv'
  BY <1>1, <1>3, <1>5, <1>6 DEF Revoke, TokenInv, TableInv, Signed
<1> QED  BY <1>3, <1>4, <1>7

(* A token that is signed now is excused if its user is deleted.           *)
LEMMA SignTables ==
  ASSUME TokenInv, NEW q \in inflight, NEW t \in Token, Sign(q, t),
         NEW state \in {"none", "live"},
         state = "none" => q.sub \notin User,
         q.sub \in q.gone =>
           q.blind \/ (q.op = "refresh" /\ issued[q.tok].excused),
         row' = [row EXCEPT ![t] = state],
         UNCHANGED <<users, marker, now, retired, sealed>>
  PROVE  Grows /\ TableInv'
<1>1. /\ Signed' = Signed \cup {t} /\ t \notin Signed
      /\ \A s \in Signed : issued'[s] = issued[s]
      /\ issued'[t].sub = q.sub
      /\ issued'[t].excused
  BY SignedFields DEF TokenInv
<1>2. row'[t] = state /\ \A s \in Token \ {t} : row'[s] = row[s]
  BY DEF TokenInv, TypeOK
<1>3. \A s \in Token : sealed[s] \in Nat
  BY DEF TokenInv, TypeOK
<1>4. Signed \subseteq Token
  BY DEF Signed
<1>5. Grows
  BY <1>1, <1>2, <1>3, <1>4 DEF Grows
<1>6. row[t] = "none"
  BY <1>1 DEF TokenInv, TableInv
<1>7. \A s \in Token : row'[s] = "revoked" <=> s \in retired'
  BY <1>2, <1>6 DEF TokenInv, TableInv
<1>8. OrphansExcused'
  BY <1>1, <1>2, <1>4 DEF TokenInv, TableInv, OrphansExcused
<1>9. TableInv'
  BY <1>1, <1>2, <1>4, <1>7, <1>8 DEF TokenInv, TableInv
<1> QED  BY <1>5, <1>9

(* A login's token belongs to no user, and may be without a row.           *)
LEMMA LoginTables ==
  ASSUME TokenInv, NEW q \in inflight, NEW t \in Token, q.op = "login",
         q.phase = "recording", Sign(q, t),
         row' = [row EXCEPT ![t] = "live"] \/ row' = row,
         UNCHANGED <<users, marker, now, retired, sealed>>
  PROVE  Grows /\ TableInv'
<1>1. row[t] = "none"
  BY DEF Sign, TokenInv, TableInv
<1>2. row' = row => row' = [row EXCEPT ![t] = "none"]
  BY <1>1 DEF TokenInv, TypeOK
<1>3. q.sub \notin User
  BY TokenAssumption DEF TokenInv, ReqInv, Shape
<1>4. q.sub \notin q.gone
  BY <1>3 DEF TokenInv, TypeOK, Request
<1> QED  BY <1>2, <1>3, <1>4, SignTables

(* The deletion of a user: no token it had when the deletion began is live *)
(* any more, and every other token of it is excused.                       *)
LEMMA RemoveTables ==
  ASSUME TokenInv, NEW q \in inflight, RemoveUser(q)
  PROVE  Grows /\ TableInv'
<1>1. /\ q.phase = "removing" /\ q.op = "delete" /\ q.sub \in User
      /\ q.old \subseteq TokensOf(q.sub)
      /\ \A t \in q.old : row[t] # "live"
  BY DEF RemoveUser, TokenInv, ReqInv, Shape
<1>2. /\ users' = [users EXCEPT ![q.sub] = "deleted"]
      /\ UNCHANGED <<row, marker, now, retired, sealed>>
  BY DEF RemoveUser
<1>3. /\ users'[q.sub] = "deleted"
      /\ \A u \in User : u # q.sub => users'[u] = users[u]
  BY <1>1, <1>2 DEF TokenInv, TypeOK
<1>4. \A t \in Signed : issued[t] \in Payload
  BY DEF Signed, TokenInv, TypeOK
<1>5. ASSUME NEW p \in Payload
      PROVE  /\ [p EXCEPT !.excused = FALSE].sub = p.sub
             /\ [p EXCEPT !.excused = FALSE].exp = p.exp
             /\ ~[p EXCEPT !.excused = FALSE].excused
  BY DEF Payload
<1>6. ASSUME NEW t \in Token
      PROVE  \/ issued'[t] = issued[t]
             \/ /\ users[q.sub] # "deleted" /\ t \in q.old
                /\ issued'[t] = [issued[t] EXCEPT !.excused = FALSE]
  BY DEF RemoveUser
<1>7. ASSUME NEW t \in Token, issued'[t] # issued[t]
      PROVE  /\ t \in Signed /\ issued[t].sub = q.sub
             /\ issued'[t].sub = issued[t].sub
             /\ issued'[t].exp = issued[t].exp
             /\ users[q.sub] # "deleted" /\ row[t] # "live"
  BY <1>1, <1>4, <1>5, <1>6, <1>7 DEF TokensOf
<1>8. Signed' = Signed
  <2>1. ASSUME NEW t \in Token PROVE t \in Signed' <=> t \in Signed
    <3>1. CASE issued'[t] = issued[t]
      BY <3>1 DEF Signed
    <3>2. CASE issued'[t] # issued[t]
      <4>1. /\ t \in Signed /\ issued[t] \in Payload
            /\ issued'[t] = [issued[t] EXCEPT !.excused = FALSE]
        BY <1>4, <1>6, <1>7, <3>2
      <4>2. issued'[t] \in Payload
        BY <4>1 DEF Payload
      <4>3. DOMAIN issued'[t] = {"sub", "exp", "excused"}
        BY <4>2 DEF Payload
      <4>4. DOMAIN NotSigned = {"exp"}
        BY DEF NotSigned
      <4> QED  BY <4>1, <4>3, <4>4 DEF Signed
    <3> QED  BY <3>1, <3>2
  <2> QED  BY <2>1 DEF Signed
<1>9. \A t \in Token : sealed[t] \in Nat
  BY DEF TokenInv, TypeOK
<1>10. ASSUME NEW t \in Signed
       PROVE  /\ issued'[t].sub = issued[t].sub
              /\ row'[t] = "live" => row[t] = "live"
              /\ /\ issued[t].sub \in User
                 /\ users[issued[t].sub] = "deleted"
                 /\ issued[t].excused
                 => issued'[t].excused
  BY <1>2, <1>7 DEF Signed
<1>11. Grows
  BY <1>2, <1>3, <1>8, <1>9, <1>10 DEF Grows
<1>12. ASSUME NEW t \in Signed, issued'[t].sub \in User
       PROVE  /\ ~issued'[t].excused => users'[issued'[t].sub] = "deleted"
              /\ users'[issued'[t].sub] = "deleted" /\ row'[t] = "live"
                   => issued'[t].excused
  <2>1. CASE issued'[t] = issued[t]
    <3>1. /\ ~issued[t].excused => users[issued[t].sub] = "deleted"
          /\ users[issued[t].sub] = "deleted" /\ row[t] = "live"
               => issued[t].excused
      BY <1>12, <2>1 DEF TokenInv, TableInv, OrphansExcused
    <3> QED  BY <1>2, <1>3, <1>12, <2>1, <3>1
  <2>2. CASE issued'[t] # issued[t]
    BY <1>2, <1>3, <1>7, <2>2 DEF Signed
  <2> QED  BY <2>1, <2>2
<1>13. OrphansExcused'
  BY <1>8, <1>12 DEF OrphansExcused
<1>14. TableInv'
  BY <1>2, <1>8, <1>10, <1>12, <1>13 DEF TokenInv, TableInv
<1> QED  BY <1>11, <1>14
-----------------------------------------------------------------------------
(* What the guard decides is right if it admits only a token that the row  *)
(* clears, or, without D1, one that has no marker, or, without KV either,  *)
(* any; and refuses only one that was retired.                             *)
LEMMA DecisionHolds ==
  ASSUME TokenInv, NEW q \in inflight, q.op # "login",
         NEW admitted \in BOOLEAN, NEW blind \in BOOLEAN, NEW deaf \in BOOLEAN,
         Decide(q, admitted, blind, deaf), now' = now,
         retired \subseteq retired',
         ~admitted => q.tok \in retired,
         admitted /\ ~blind => row[q.tok] # "revoked",
         admitted /\ blind /\ ~deaf => marker[q.tok] = 0
  PROVE  VerdictInv'
<1> USE TokenAssumption
<1>1. /\ q \in Request /\ q.tok \in Token
      /\ q.retired => q.tok \in retired
      /\ q.sealed <= sealed[q.tok]
  BY DEF TokenInv, TypeOK, ReqInv, Shape, Signed
<1>2. \A v \in verdict' :
        /\ v.tok = q.tok /\ v.admitted = admitted /\ v.blind = blind
        /\ v.deaf = deaf /\ v.retired = q.retired /\ v.sealed = q.sealed
  BY <1>1, DecideTypes DEF TokenInv
<1>3. RefusedOnlyRetired'
  BY <1>2 DEF RefusedOnlyRetired
<1>4. RetiredRefused'
  BY <1>1, <1>2 DEF RetiredRefused, TokenInv, TableInv
<1>5. SealedRefused'
  <2> SUFFICES ASSUME admitted, ~deaf, q.sealed # 0
               PROVE  now >= q.sealed + MarkerTTL
    BY <1>2 DEF SealedRefused
  <2>1. /\ q.sealed \in Nat /\ sealed[q.tok] \in Nat /\ now \in Nat
        /\ MarkerTTL \in Nat
    BY <1>1 DEF Request, TokenInv, TypeOK
  <2>2. sealed[q.tok] # 0
    BY <1>1, <2>1
  <2>3. row[q.tok] = "revoked"
    BY <1>1, <2>2 DEF TokenInv, TableInv
  <2>4. marker[q.tok] = 0
    BY <2>3
  <2>5. now >= sealed[q.tok] + MarkerTTL
    BY <1>1, <2>1, <2>2, <2>4 DEF TokenInv, TableInv
  <2> QED  BY <1>1, <2>1, <2>5
<1> QED  BY <1>3, <1>4, <1>5 DEF VerdictInv

LEMMA SilenceHolds == Silent => VerdictInv'
BY DEF Silent, VerdictInv, RetiredRefused, SealedRefused, RefusedOnlyRetired

-----------------------------------------------------------------------------
LEMMA InitEstablishes == Init => TokenInv
<1> SUFFICES ASSUME Init PROVE TokenInv
  OBVIOUS
<1>1. TypeOK
  BY DEF Init, TypeOK
<1>2. Signed = {}
  BY DEF Init, Signed
<1>3. TableInv
  BY <1>2 DEF Init, TableInv, OrphansExcused
<1>4. VerdictInv
  BY DEF Init, VerdictInv, RetiredRefused, SealedRefused, RefusedOnlyRetired
<1> QED  BY <1>1, <1>3, <1>4 DEF Init, TokenInv

(* A request that begins knows the tables as they are.                     *)
LEMMA StartKeeps ==
  ASSUME TokenInv, TypeOK', NEW id \in Req, Start(id) PROVE TokenInv'
<1>1. UNCHANGED Tables /\ Silent
  BY DEF Start, StartLogin, StartGuarded, Tables
<1>2. Grows /\ TableInv' /\ VerdictInv' /\ Signed' = Signed
  BY <1>1, QuietTables, SilenceHolds
<1>3. \A p \in inflight : ReqInv(p)'
  BY <1>2, OthersKeep
<1>4. CASE StartLogin(id)
  <2> DEFINE new == [id |-> id, op |-> "login", tok |-> NoToken,
                     sub |-> Admin, phase |-> "recording", blind |-> FALSE,
                     retired |-> FALSE, sealed |-> 0, gone |-> {},
                     old |-> {}, start |-> now]
  <2>0. /\ inflight' = inflight \cup {new}
        /\ new.op = "login" /\ new.phase = "recording" /\ new.retired = FALSE
        /\ new.gone = {} /\ new.old = {} /\ new.sub = Admin
    BY <1>4 DEF StartLogin
  <2> HIDE DEF new
  <2>1. PICK r :
          /\ inflight' = inflight \cup {r}
          /\ r.op = "login" /\ r.phase = "recording" /\ r.retired = FALSE
          /\ r.gone = {} /\ r.old = {} /\ r.sub = Admin
    BY <2>0
  <2>3. ReqInv(r)'
    BY <2>1 DEF ReqInv, Shape
  <2> QED  BY <1>2, <1>3, <2>1, <2>3 DEF TokenInv
<1>5. ASSUME NEW op \in Guarded, NEW t \in Token, NEW u \in Subject,
             op \in {"delete", "issue", "create"} => u \in User,
             StartGuarded(id, op, t, u)
      PROVE  TokenInv'
  <2> DEFINE new == [id |-> id, op |-> op, tok |-> t,
                     sub |-> IF op = "refresh" THEN issued[t].sub ELSE u,
                     phase |-> "checking", blind |-> FALSE,
                     retired |-> t \in retired, sealed |-> sealed[t],
                     gone |-> {v \in User : users[v] = "deleted"},
                     old |-> IF op = "delete" THEN TokensOf(u) ELSE {},
                     start |-> now]
  <2>0. /\ inflight' = inflight \cup {new}
        /\ new.op = op /\ new.phase = "checking" /\ new.tok = t
        /\ new.sealed = sealed[t]
        /\ new.sub = IF op = "refresh" THEN issued[t].sub ELSE u
        /\ new.gone = {v \in User : users[v] = "deleted"}
        /\ new.old = IF op = "delete" THEN TokensOf(u) ELSE {}
        /\ new.retired => t \in retired
    BY <1>5 DEF StartGuarded
  <2> HIDE DEF new
  <2>1. PICK r :
          /\ inflight' = inflight \cup {r}
          /\ r.op = op /\ r.phase = "checking" /\ r.tok = t
          /\ r.sealed = sealed[t]
          /\ r.sub = IF op = "refresh" THEN issued[t].sub ELSE u
          /\ r.gone = {v \in User : users[v] = "deleted"}
          /\ r.old = IF op = "delete" THEN TokensOf(u) ELSE {}
          /\ r.retired => t \in retired
    BY <2>0
  <2>2. r.retired => t \in retired
    BY <2>1
  <2>3. inflight' = inflight \cup {r} /\ t \in Signed
    BY <1>5, <2>1 DEF StartGuarded
  <2>4. op # "login"
    BY DEF Guarded
  <2>5. r.old \subseteq TokensOf(r.sub)'
    BY <1>1, <1>2, <2>1 DEF TokensOf, Tables
  <2>6. Shape(r)'
    BY <1>2, <1>5, <2>1, <2>3, <2>4, <2>5 DEF Shape
  <2>7. sealed[t] \in Nat
    BY DEF TokenInv, TypeOK
  <2>8. ReqInv(r)'
    BY <1>1, <2>1, <2>2, <2>4, <2>6, <2>7 DEF ReqInv, Tables
  <2> QED  BY <1>2, <1>3, <2>3, <2>8 DEF TokenInv
<1> QED  BY <1>4, <1>5 DEF Start, Guarded, Subject

(* Time only ends markers, at their time.                                  *)
LEMMA TickKeeps == ASSUME TokenInv, TypeOK', Tick PROVE TokenInv'
<1> USE TokenAssumption
<1>1. /\ now \in Nat /\ MarkerTTL \in Nat
      /\ \A t \in Token : sealed[t] \in Nat /\ marker[t] \in Nat
  BY DEF TokenInv, TypeOK
<1>2. now' = now + 1 /\ UNCHANGED <<issued, row, users, inflight, retired, sealed>>
  BY DEF Tick
<1>3. \A t \in Token : marker'[t] = IF marker[t] > now + 1 THEN marker[t] ELSE 0
  BY DEF Tick
<1>4. Signed' = Signed
  BY <1>2 DEF Signed
<1>5. Grows
  BY <1>1, <1>2, <1>4 DEF Grows
<1>6. \A t \in Token : sealed'[t] # 0 => \/ marker'[t] >= sealed'[t] + MarkerTTL
                                         \/ now' >= sealed'[t] + MarkerTTL
  BY <1>1, <1>2, <1>3 DEF TokenInv, TableInv
<1>7. \A t \in Token : /\ sealed'[t] <= now'
                       /\ marker'[t] # 0 \/ sealed'[t] # 0 => t \in retired'
  BY <1>1, <1>2, <1>3 DEF TokenInv, TableInv
<1>8. TableInv'
  BY <1>2, <1>4, <1>6, <1>7 DEF TokenInv, TableInv, OrphansExcused
<1>9. VerdictInv'
  BY SilenceHolds DEF Tick
<1>10. \A p \in inflight' : ReqInv(p)'
  BY <1>2, <1>5, OthersKeep
<1> QED  BY <1>8, <1>9, <1>10 DEF TokenInv

(* A marker that is put starts a new life, and only for a retired token.   *)
LEMMA PutKeeps ==
  ASSUME TokenInv, TypeOK', NEW q \in inflight, PutMarker(q) PROVE TokenInv'
<1> USE TokenAssumption
<1>1. /\ q.op # "login" /\ q.tok \in Token /\ q.tok \in retired
  BY DEF PutMarker, TokenInv, ReqInv, Shape, Signed
<1>2. /\ now \in Nat /\ MarkerTTL \in Nat
      /\ \A t \in Token : sealed[t] \in Nat /\ marker[t] \in Nat
  BY DEF TokenInv, TypeOK
<1>3. UNCHANGED <<issued, row, users, now, begun, retired>>
  BY DEF PutMarker
<1>4. Signed' = Signed
  BY <1>3 DEF Signed
<1>5. \A t \in Token : \/ /\ t = q.tok /\ marker'[t] = now + MarkerTTL
                          /\ sealed'[t] = now
                       \/ marker'[t] = marker[t] /\ sealed'[t] = sealed[t]
  BY <1>1 DEF PutMarker, TokenInv, TypeOK
<1>6. Grows
  BY <1>2, <1>3, <1>4, <1>5 DEF Grows, TokenInv, TableInv
<1>7. \A t \in Token :
        /\ marker'[t] # 0 \/ sealed'[t] # 0 => t \in retired
        /\ sealed'[t] # 0 => \/ marker'[t] >= sealed'[t] + MarkerTTL
                             \/ now >= sealed'[t] + MarkerTTL
        /\ sealed'[t] <= now
  BY <1>1, <1>2, <1>5 DEF TokenInv, TableInv
<1>8. TableInv'
  BY <1>3, <1>4, <1>7 DEF TokenInv, TableInv, OrphansExcused
<1>9. Finish(q) /\ Decide(q, FALSE, FALSE, FALSE)
  BY DEF PutMarker
<1>10. VerdictInv'
  BY <1>1, <1>3, <1>9, DecisionHolds
<1> QED  BY <1>6, <1>8, <1>9, <1>10, FinishKeeps DEF TokenInv

(* The await a request is in completes.                                    *)
LEMMA StepKeeps ==
  ASSUME TokenInv, TypeOK', NEW q \in inflight, Step(q) PROVE TokenInv'
<1>1. q \in Request /\ ReqInv(q) /\ Shape(q)
  BY DEF TokenInv, TypeOK, ReqInv
<1>2. q.op # "login" => q.tok \in Token /\ q.tok \in Signed
  BY <1>1 DEF Shape, Signed
<1>3. q.sub \in q.gone => q.sub \in User
  BY <1>1 DEF Request
<1>4. CASE CheckRow(q)
  <2>1. q.phase = "checking" /\ q.op # "login" /\ now' = now /\ retired' = retired
    BY <1>1, <1>4 DEF CheckRow, Shape
  <2>2. Grows /\ TableInv' /\ Signed' = Signed
    BY <1>4, QuietTables DEF CheckRow, Tables
  <2>3. CASE row[q.tok] = "revoked"
    <3>1. Move(q, "marking") /\ Silent
      BY <1>4, <2>3 DEF CheckRow
    <3>2. q.tok \in retired
      BY <1>2, <2>1, <2>3 DEF TokenInv, TableInv
    <3>3. \A p \in inflight' : ReqInv(p)'
      BY <2>1, <2>2, <3>1, <3>2, MoveKeeps
    <3> QED  BY <2>2, <3>1, <3>3, SilenceHolds DEF TokenInv
  <2>4. CASE row[q.tok] # "revoked"
    <3>1. Admit(q, FALSE, FALSE)
      BY <1>4, <2>4 DEF CheckRow
    <3>2. Decide(q, TRUE, FALSE, FALSE)
      BY <3>1 DEF Admit
    <3>3. VerdictInv'
      BY <2>1, <2>4, <3>2, DecisionHolds
    <3>4. q.op = "refresh" /\ q.sub \in q.gone => issued'[q.tok].excused
      <4> SUFFICES ASSUME q.op = "refresh", q.sub \in q.gone
                   PROVE  issued[q.tok].excused
        BY <1>4 DEF CheckRow
      <4>1. /\ q.sub = issued[q.tok].sub /\ q.sub \in User
            /\ users[q.sub] = "deleted"
        BY <1>1, <1>3 DEF ReqInv
      <4>2. row[q.tok] = "live"
        BY <1>2, <2>1, <2>4, <4>1 DEF TokenInv, TableInv, TypeOK
      <4> QED  BY <1>2, <2>1, <4>1, <4>2 DEF TokenInv, TableInv, OrphansExcused
    <3>5. \A p \in inflight' : ReqInv(p)'
      BY <2>1, <2>2, <3>1, <3>4, AdmitKeeps
    <3> QED  BY <2>2, <3>3, <3>5 DEF TokenInv
  <2> QED  BY <2>3, <2>4
<1>5. CASE CheckFails(q)
  <2>1. Grows /\ TableInv' /\ VerdictInv'
    BY <1>5, QuietTables, SilenceHolds DEF CheckFails, Tables
  <2>2. q.op # "login" /\ Move(q, "consulting")
    BY <1>1, <1>5 DEF CheckFails, Shape
  <2>3. \A p \in inflight' : ReqInv(p)'
    BY <2>1, <2>2, MoveKeeps
  <2> QED  BY <2>1, <2>3 DEF TokenInv
<1>6. CASE Consult(q)
  <2>1. /\ q.phase = "consulting" /\ q.op # "login" /\ now' = now
        /\ retired' = retired
    BY <1>1, <1>6 DEF Consult, Shape
  <2>2. Grows /\ TableInv'
    BY <1>6, QuietTables DEF Consult, Tables
  <2>3. CASE marker[q.tok] # 0
    <3>1. Decide(q, FALSE, TRUE, FALSE) /\ Finish(q)
      BY <1>6, <2>3 DEF Consult
    <3>2. q.tok \in retired
      BY <1>2, <2>1, <2>3 DEF TokenInv, TableInv
    <3>3. VerdictInv'
      BY <2>1, <3>1, <3>2, DecisionHolds
    <3> QED  BY <2>2, <3>1, <3>3, FinishKeeps DEF TokenInv
  <2>4. CASE marker[q.tok] = 0
    <3>1. Admit(q, TRUE, FALSE)
      BY <1>6, <2>4 DEF Consult
    <3>2. Decide(q, TRUE, TRUE, FALSE)
      BY <3>1 DEF Admit
    <3>3. VerdictInv'
      BY <2>1, <2>4, <3>2, DecisionHolds
    <3>4. \A p \in inflight' : ReqInv(p)'
      BY <2>1, <2>2, <3>1, AdmitKeeps
    <3> QED  BY <2>2, <3>3, <3>4 DEF TokenInv
  <2> QED  BY <2>3, <2>4
<1>7. CASE ConsultFails(q)
  <2>1. q.op # "login" /\ now' = now /\ retired' = retired
    BY <1>1, <1>7 DEF ConsultFails, Shape
  <2>2. Grows /\ TableInv'
    BY <1>7, QuietTables DEF ConsultFails, Tables
  <2>3. Admit(q, TRUE, TRUE) /\ Decide(q, TRUE, TRUE, TRUE)
    BY <1>7 DEF ConsultFails, Admit
  <2>4. VerdictInv'
    BY <2>1, <2>3, DecisionHolds
  <2>5. \A p \in inflight' : ReqInv(p)'
    BY <2>1, <2>2, <2>3, AdmitKeeps
  <2> QED  BY <2>2, <2>4, <2>5 DEF TokenInv
<1>8. CASE Leave(q)
  <2>1. q.op # "login" /\ {q.tok} \in SUBSET Token
    BY <1>1, <1>2, <1>8 DEF Leave, Shape
  <2>2. /\ Revoke({q.tok}) /\ UNCHANGED <<issued, users, marker, now, sealed>>
        /\ Finish(q) /\ Silent
    BY <1>8 DEF Leave
  <2>3. Grows /\ TableInv'
    BY <2>1, <2>2, RevokeTables
  <2> QED  BY <2>2, <2>3, FinishKeeps, SilenceHolds DEF TokenInv
<1>9. CASE Retire(q)
  <2>1. /\ q.phase = "retiring" /\ q.op = "refresh" /\ q.op # "login"
        /\ {q.tok} \in SUBSET Token
    BY <1>1, <1>2, <1>9 DEF Retire, Shape
  <2>2. /\ Revoke({q.tok}) /\ UNCHANGED <<issued, users, marker, now, sealed>>
        /\ Move(q, "issuing") /\ Silent
    BY <1>9 DEF Retire
  <2>3. Grows /\ TableInv'
    BY <2>1, <2>2, RevokeTables
  <2>4. \A p \in inflight' : ReqInv(p)'
    BY <2>1, <2>2, <2>3, MoveKeeps
  <2> QED  BY <2>2, <2>3, <2>4, SilenceHolds DEF TokenInv
<1>10. ASSUME NEW t \in Token, Issue(q, t) PROVE TokenInv'
  <2>1. q.phase = "issuing" /\ q.op \in {"refresh", "issue"}
    BY <1>1, <1>10 DEF Issue, Shape
  <2>2. q.sub \in q.gone =>
          q.blind \/ (q.op = "refresh" /\ issued[q.tok].excused)
    <3>1. CASE q.op = "issue"
      BY <1>1, <2>1, <3>1 DEF ReqInv
    <3>2. CASE q.op = "refresh"
      BY <1>1, <2>1, <3>2 DEF ReqInv
    <3> QED  BY <2>1, <3>1, <3>2
  <2>3. /\ Sign(q, t) /\ row' = [row EXCEPT ![t] = "live"]
        /\ UNCHANGED <<users, marker, now, retired, sealed>>
        /\ Finish(q) /\ Silent
    BY <1>10 DEF Issue
  <2>4. Grows /\ TableInv'
    <3>1. "live" \in {"none", "live"} /\ "live" # "none"
      OBVIOUS
    <3> QED  BY <2>2, <2>3, <3>1, SignTables
  <2> QED  BY <2>3, <2>4, FinishKeeps, SilenceHolds DEF TokenInv
<1>11. ASSUME NEW t \in Token, RecordLogin(q, t) PROVE TokenInv'
  <2>1. q.op = "login"
    BY <1>1, <1>11 DEF RecordLogin, Shape
  <2>2. /\ Sign(q, t) /\ Finish(q) /\ Silent
        /\ row' = [row EXCEPT ![t] = "live"] \/ row' = row
        /\ UNCHANGED <<users, marker, now, retired, sealed>>
    BY <1>11 DEF RecordLogin
  <2>3. Grows /\ TableInv'
    BY <1>11, <2>1, <2>2, LoginTables DEF RecordLogin
  <2> QED  BY <2>2, <2>3, FinishKeeps, SilenceHolds DEF TokenInv
<1>12. CASE CreateUser(q)
  <2>1. q.sub \in User
    BY <1>1, <1>12 DEF CreateUser, Shape
  <2>2. /\ users' = [users EXCEPT ![q.sub] = "present"]
        /\ users[q.sub] = "none"
        /\ UNCHANGED <<issued, row, marker, now, retired, sealed>>
    BY <1>12 DEF CreateUser
  <2>3. /\ \A u \in User : users[u] = "deleted" <=> users'[u] = "deleted"
        /\ Signed' = Signed
        /\ \A t \in Token : sealed[t] \in Nat
    BY <2>1, <2>2 DEF TokenInv, TypeOK, Signed
  <2>4. Grows
    BY <2>2, <2>3 DEF Grows
  <2>5. TableInv'
    BY <2>2, <2>3 DEF TokenInv, TableInv, OrphansExcused
  <2> QED
    BY <1>12, <2>4, <2>5, FinishKeeps, SilenceHolds DEF CreateUser, TokenInv
<1>13. CASE FindUser(q)
  <2>1. Grows /\ TableInv' /\ VerdictInv'
    BY <1>13, QuietTables, SilenceHolds DEF FindUser, Tables
  <2>2. CASE users[q.sub] # "present"
    <3>1. Finish(q)
      BY <1>13, <2>2 DEF FindUser
    <3> QED  BY <2>1, <3>1, FinishKeeps DEF TokenInv
  <2>3. CASE users[q.sub] = "present"
    <3>1. q.sub \notin q.gone /\ q.op # "login"
      BY <1>1, <1>13, <2>3 DEF FindUser, Shape, ReqInv
    <3>2. \/ q.op = "delete" /\ Move(q, "revoking")
          \/ q.op = "issue" /\ Move(q, "issuing")
      BY <1>1, <1>13, <2>3 DEF FindUser, Shape
    <3>3. \A p \in inflight' : ReqInv(p)'
      BY <2>1, <3>1, <3>2, MoveKeeps
    <3> QED  BY <2>1, <3>3 DEF TokenInv
  <2> QED  BY <2>2, <2>3
<1>14. CASE RevokeUser(q)
  <2>1. q.op = "delete" /\ q.op # "login" /\ q.old \subseteq TokensOf(q.sub)
    BY <1>1, <1>14 DEF RevokeUser, Shape
  <2>2. /\ Revoke(TokensOf(q.sub))
        /\ UNCHANGED <<issued, users, marker, now, sealed>>
        /\ Move(q, "removing") /\ Silent
    BY <1>14 DEF RevokeUser
  <2>3. TokensOf(q.sub) \in SUBSET Token
    BY DEF TokensOf, Signed
  <2>4. Grows /\ TableInv' /\ \A t \in TokensOf(q.sub) : row'[t] # "live"
    BY <2>2, <2>3, RevokeTables
  <2>5. \A p \in inflight' : ReqInv(p)'
    BY <2>1, <2>2, <2>4, MoveKeeps
  <2> QED  BY <2>2, <2>4, <2>5, SilenceHolds DEF TokenInv
<1>15. CASE RemoveUser(q)
  BY <1>15, RemoveTables, FinishKeeps, SilenceHolds DEF RemoveUser, TokenInv
<1>16. CASE Abort(q)
  <2>1. Grows /\ TableInv'
    BY <1>16, QuietTables DEF Abort, Tables
  <2> QED  BY <1>16, <2>1, FinishKeeps, SilenceHolds DEF Abort, TokenInv
<1> QED
  BY <1>4, <1>5, PutKeeps, <1>6, <1>7, <1>8, <1>9, <1>10, <1>11, <1>12,
     <1>13, <1>14, <1>15, <1>16
  DEF Step

LEMMA Invariance == Spec => []TokenInv
<1>1. TokenInv /\ [Next]_vars => TokenInv'
  <2> SUFFICES ASSUME TokenInv, [Next]_vars PROVE TokenInv'
    OBVIOUS
  <2>1. TypeOK'
    BY TypeStep
  <2>2. CASE UNCHANGED vars
    <3>1. UNCHANGED Tables /\ inflight' = inflight /\ verdict' = verdict
      BY <2>2 DEF vars, Tables
    <3>2. Grows /\ TableInv'
      BY <3>1, QuietTables
    <3>3. \A p \in inflight' : ReqInv(p)'
      BY <2>1, <3>1, <3>2, OthersKeep
    <3>4. VerdictInv'
      BY <3>1 DEF Tables, TokenInv, VerdictInv, RetiredRefused, SealedRefused,
                  RefusedOnlyRetired
    <3> QED  BY <2>1, <3>2, <3>3, <3>4 DEF TokenInv
  <2> QED  BY <2>1, <2>2, StartKeeps, StepKeeps, TickKeeps DEF Next
<1> QED  BY <1>1, InitEstablishes, PTL DEF Spec

-----------------------------------------------------------------------------
(* The variables keep their types.                                         *)
THEOREM TypeCorrect == Spec => []TypeOK
<1>1. TokenInv => TypeOK
  BY DEF TokenInv
<1> QED  BY <1>1, Invariance, PTL

(* A token retired before a request began is admitted by it only when D1   *)
(* did not answer.                                                         *)
THEOREM RetiredIsRefused == Spec => []RetiredRefused
<1>1. TokenInv => RetiredRefused
  BY DEF TokenInv, VerdictInv
<1> QED  BY <1>1, Invariance, PTL

(* A marker refuses its token for its whole life, whatever D1 does.        *)
THEOREM SealedIsRefused == Spec => []SealedRefused
<1>1. TokenInv => SealedRefused
  BY DEF TokenInv, VerdictInv
<1> QED  BY <1>1, Invariance, PTL

(* Nobody is refused for a revocation that did not happen.                 *)
THEOREM RefusalIsEarned == Spec => []RefusedOnlyRetired
<1>1. TokenInv => RefusedOnlyRetired
  BY DEF TokenInv, VerdictInv
<1> QED  BY <1>1, Invariance, PTL

(* A live token of a deleted user has one of the three causes, whatever    *)
(* overlaps.                                                               *)
THEOREM OrphansAreExcused == Spec => []OrphansExcused
<1>1. TokenInv => OrphansExcused
  BY DEF TokenInv, TableInv
<1> QED  BY <1>1, Invariance, PTL
=============================================================================
