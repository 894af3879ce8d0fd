--------------------------- MODULE ClientHistory ---------------------------
(***************************************************************************)
(* ClientSync with the memory of what overlapping requests miss of each    *)
(* other.  An upload lists the ports of its node, and looks at the owner of*)
(* a claim, one await before it writes; a check looks for a claim several  *)
(* awaits before it writes one.  Whatever others write in between, it does *)
(* not know.                                                               *)
(***************************************************************************)
EXTENDS ClientSync

VARIABLES
  unaware,  \* the requests whose look has been overtaken, and at what
  rushed    \* of the records that share a port: those put unawares

historyVars == <<vars, unaware, rushed>>

(* A record of its node and port was put since it listed.                  *)
PortMissed(w) ==
  /\ w.phase = "storing" /\ w.port # NoPort
  /\ \E c \in Config \ {w.cfg} :
       /\ NodeOf[c] = NodeOf[w.cfg]
       /\ client'[c] # client[c] /\ client'[c].port = w.port

Changed(t) == HolderOf(t)' # HolderOf(t)

ClaimMissed(q) ==
  IF q \in writers
  THEN \/ q.phase = "reclaiming" /\ Changed(Trim[q.raw])
       \/ q.phase = "dropping" /\ Changed(q.prev)
  ELSE q.op = "check" /\ q.phase # "owner" /\ Changed(q.tag)

Stays(id, phases) == \E q \in writers' \cup readers' : q.id = id /\ q.phase \in phases

(* blind: the uploads whose list fails in this step.                       *)
Notice(blind) ==
  unaware' =
    {<<q.id, "port">> : q \in {w \in blind : w.port # NoPort}} \cup
    {<<q.id, "port">> : q \in {w \in writers :
       /\ <<w.id, "port">> \in unaware \/ PortMissed(w)
       /\ Stays(w.id, {"storing"})}} \cup
    {<<q.id, "claim">> : q \in {r \in writers \cup readers :
       /\ <<r.id, "claim">> \in unaware \/ ClaimMissed(r)
       /\ Stays(r.id, {"reclaiming", "dropping", "listing", "scanning"})}}

(* The upload whose put this step is.                                      *)
Putting(c) ==
  {q \in writers : q.phase = "storing" /\ q.cfg = c /\ ~Stays(q.id, {"storing"})}

(* Two records that metadata mirrors use one port of one node.             *)
Clash(c, d) ==
  /\ c # d /\ NodeOf[c] = NodeOf[d] /\ Meta(c) /\ Meta(d)
  /\ client[c].port # NoPort /\ client[c].port = client[d].port

Rush ==
  rushed' = {c \in Config :
    /\ \E d \in Config : Clash(c, d)'
    /\ IF client'[c] # client[c] /\ Putting(c) # {}
       THEN \E q \in Putting(c) : <<q.id, "port">> \in unaware
       ELSE c \in rushed}

HistoryInit == Init /\ unaware = {} /\ rushed = {}
HistoryNext ==
  /\ \/ (Receive \/ Proceed \/ Tick) /\ Notice({})
     \/ \E q \in writers : ListFails(q) /\ Notice({q})
  /\ Rush
HistorySpec == HistoryInit /\ [][HistoryNext]_historyVars

-----------------------------------------------------------------------------
(* Two records that metadata mirrors share a port of a node only if one was*)
(* put by an upload whose list failed, or missed the other's put, which    *)
(* fell between its list and its own: no other order of uploads, re-uploads*)
(* deletions, expiries and retries gets past the guard (clients.ts:207-228)*)
PortsDistinct ==
  \A c, d \in Config : Clash(c, d) => c \in rushed \/ d \in rushed

(* A claim that another config holds is taken away only by an upload that  *)
(* newly takes the tag, or by a request that had looked before the claim   *)
(* changed hands: no renewal, release, delete or check takes it knowingly  *)
(* (clients.ts:267-288, 302-309, tags.ts:66-97).                           *)
ClaimsRespected ==
  [][\A t \in Tag : claim[t] # NoClaim /\ Changed(t) =>
       \/ now' # now
       \/ \E q \in writers \ writers' : q.cfg = claim[t].owner \/ q.phase = "claiming"
       \/ \E q \in (writers \ writers') \cup (readers \ readers') :
            <<q.id, "claim">> \in unaware]_historyVars
=============================================================================
