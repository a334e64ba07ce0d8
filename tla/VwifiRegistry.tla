--------------------------- MODULE VwifiRegistry ---------------------------
(***************************************************************************)
(* The server as a registry of guests: what happens to the position and    *)
(* the name of a guest when it leaves and comes back.                      *)
(***************************************************************************)
EXTENDS VwifiServer

Cids(infoWifis) == {infoWifis[k].cid : k \in 1..Len(infoWifis)}

\* The last entry of a guest in a list that has one.
LastEntry(infoWifis, cid) ==
    infoWifis[Max({k \in 1..Len(infoWifis) : infoWifis[k].cid = cid})]

\* The newest CInfoWifi the server holds for a guest: that of its youngest
\* connection, else the one saved last, else a new one.
Latest(s, cid) ==
    IF cid \in Cids(InfoWifis[s]) THEN LastEntry(InfoWifis[s], cid)
    ELSE IF cid \in Cids(InfoWifisDeconnected[s]) THEN LastEntry(InfoWifisDeconnected[s], cid)
    ELSE [cid |-> cid, coo |-> DefaultCoo, name |-> DefaultName]

\* A guest that connects gets the position and the name the server held for
\* it last: CloseClient saves them "(the coordinate of the cid)", Accept
\* recovers them.
PlaceSurvivesReconnect ==
    [][\A s \in Srv : Len(InfoWifis'[s]) > Len(InfoWifis[s]) =>
          LET new == InfoWifis'[s][Len(InfoWifis'[s])]
          IN  new = Latest(s, new.cid)]_vars

\* The lists hold at most one entry per guest: it is connected once or it is
\* remembered once, never both.
OneEntryPerGuest ==
    \A s \in Srv :
        LET all == InfoWifis[s] \o InfoWifisDeconnected[s]
        IN  \A j, k \in 1..Len(all) : all[j].cid = all[k].cid => j = k

\* ForwardData outlives a guest that closes its connection.
ForwardSurvives == [][(pc \in Srv) => (pc' # "Exited")]_vars

-----------------------------------------------------------------------------
(***************************************************************************)
(* The refinement mapping of the guests' lists to Registry.                *)
(***************************************************************************)
online == Cids(InfoWifis["wifi"])

departed == [k \in 1..Len(InfoWifisDeconnected["wifi"]) |-> InfoWifisDeconnected["wifi"][k].cid]

memory == [c \in online \cup ToSet(departed) |->
              [coo |-> Latest("wifi", c).coo, name |-> Latest("wifi", c).name]]

Abstract == INSTANCE Registry WITH
                Data     <- [coo : Coo, name : Names],
                Default  <- [coo |-> DefaultCoo, name |-> DefaultName],
                Capacity <- MaxDeconnected["wifi"]

\* The server implements the registry, as long as a guest connects again
\* only after the server has removed its old connection.
ImplementsRegistry == Abstract!Spec

=============================================================================
