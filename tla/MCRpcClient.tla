---------------------------- MODULE MCRpcClient ----------------------------
(***************************************************************************)
(* Instances of RpcClient for TLC.                                         *)
(***************************************************************************)
EXTENDS RpcClient

Json(status, error, code, result) ==
    [status |-> status, body |-> "object", error |-> error,
     code |-> code, result |-> result]

Plain(status, body) ==
    [status |-> status, body |-> body, error |-> "absent",
     code |-> 0, result |-> "absent"]

Success   == Json(200, "absent", 0, "good")
Misshapen == Json(200, "null", 0, "misshapen")
Partial   == Json(200, "absent", 0, "partial")
NotInt    == Json(200, "absent", 0, "unconvertible")
NoToken   == Json(401, "coded", -32001, "absent")
Upstream  == Json(200, "coded", -32020, "absent")
BadCode   == Json(200, "badcode", 0, "absent")
Gateway   == Plain(503, "text")
Healthy   == Plain(200, "ok")

\* One reply of every sort the caller can tell apart.
AllReplies ==
    {Success, Misshapen, Partial, NotInt, NoToken, Upstream, BadCode, Gateway,
     Healthy}

\* The same but for two ways in which the result of a method may disappoint.
MostReplies == AllReplies \ {Partial, NotInt}

\* Fewer, for instances with more calls.
FewReplies == {Success, NoToken, Gateway}
=============================================================================
