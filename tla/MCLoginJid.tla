----------------------------- MODULE MCLoginJid -----------------------------
(***************************************************************************)
(* Values for LoginJid.  Tokens: "x" for device, "y" for jid, "s" for the  *)
(* server; users "12" and "3".                                             *)
(***************************************************************************)
EXTENDS LoginJid

MCTokens ==
    0 :> <<>> @@ 1 :> <<120>> @@ 2 :> <<101>> @@ 3 :> <<115>> @@ 4 :> <<121>>
MCDoubles == <<0, 0>> :> <<49>>
MCUsers == {<<49, 50>>, <<51>>}
MCNodes ==
    {DeviceNode(j, withAgent) :
        j \in [user : MCUsers, agent : Agents, device : Devices], withAgent \in BOOLEAN}
=============================================================================
