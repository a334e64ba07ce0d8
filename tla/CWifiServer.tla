---------------------------- MODULE CWifiServer ----------------------------
(***************************************************************************)
(* The lists a CWifiServer keeps, and what its methods do to them.         *)
(*                                                                         *)
(*   InfoSockets           one [fd, enable] per accepted connection        *)
(*                         (CInfoSocket, kept by the base CSocketServer)   *)
(*   InfoWifis             one [cid, coo, name] per accepted connection    *)
(*                         (CInfoWifi), at the SAME index                  *)
(*   InfoWifisDeconnected  the [cid, coo, name] of guests that left, oldest*)
(*                         first, at most MaxClientDeconnected of them     *)
(*                                                                         *)
(* Indices are 1-based here and 0-based in the code.                       *)
(***************************************************************************)
EXTENDS Integers, Sequences, SequencesExt

\* The index a search that stops at its first hit returns; 0 for "not found".
FirstOf(I) == IF I = {} THEN 0 ELSE Min(I)

\* GetReferenceOnInfoWifiByCID and GetReferenceOnInfoWifiDeconnectedByCID:
\* the first entry with this cid, whether its connection is enabled or not.
IndexByCID(infoWifis, cid) == FirstOf({k \in 1..Len(infoWifis) : infoWifis[k].cid = cid})

\* The search of RecoverInfosOfInfoWifi: only enabled connections count.
EnabledIndexByCID(infoSockets, infoWifis, cid) ==
    FirstOf({k \in 1..Len(infoWifis) : infoSockets[k].enable /\ infoWifis[k].cid = cid})

\* DisableClient(index), and the DisableIt() of a failed send.
DisableClients(infoSockets, I) ==
    [k \in 1..Len(infoSockets) |->
        IF k \in I THEN [infoSockets[k] EXCEPT !.enable = FALSE] ELSE infoSockets[k]]

\* The indices of the connections that are enabled.
Enabled(infoSockets) == {k \in 1..Len(infoSockets) : infoSockets[k].enable}

\* The descriptors of InfoSockets, and those CInfoSocket::Close really
\* closes: a connection that was disabled before is skipped.
Descriptors(infoSockets) == {infoSockets[k].fd : k \in 1..Len(infoSockets)}

EnabledDescriptors(infoSockets) == {infoSockets[k].fd : k \in Enabled(infoSockets)}

\* Mutant of AddInfoWifiDeconnected: > for >=.
AddInfoWifiDeconnectedOneMore(infoWifisDeconnected, max, infoWifi) ==
    Append(IF Len(infoWifisDeconnected) > max THEN RemoveAt(infoWifisDeconnected, 1)
                                              ELSE infoWifisDeconnected,
           infoWifi)

\* AddInfoWifiDeconnected: a full list loses its oldest entry first.
AddInfoWifiDeconnected(infoWifisDeconnected, max, infoWifi) ==
    Append(IF Len(infoWifisDeconnected) >= max THEN RemoveAt(infoWifisDeconnected, 1)
                                               ELSE infoWifisDeconnected,
           infoWifi)

\* The last n elements.
Youngest(seq, n) ==
    IF Len(seq) <= n THEN seq ELSE SubSeq(seq, Len(seq) - n + 1, Len(seq))

\* CloseAllClient calls AddInfoWifiDeconnected for every client, index 0
\* first: of the old list and the clients, the youngest max entries stay.
AddAllDeconnected(infoWifisDeconnected, max, infoWifis) ==
    Youngest(infoWifisDeconnected \o infoWifis, max)

=============================================================================
