----------------------------- MODULE MCStopped -----------------------------
(***************************************************************************)
(* Three Apps: a stopped backup of what two of them use, a batch of what   *)
(* one of those uses, and a stopped backup of the third's.                 *)
(***************************************************************************)
EXTENDS StoppedApps, TLC

CONSTANTS site, wiki, mail, volume, batch, inbox, folder, data

MCUses ==
    volume :> {site, wiki} @@ batch :> {site} @@ inbox :> {mail}

MCMembers ==
    [w \in Windows |-> IF w = batch THEN {folder, data} ELSE {data}]
=============================================================================
