--------------------------- MODULE MCClientSession --------------------------
(* Any one or two messages in a handler, but for a part of an update that is *)
(* followed by anything else.                                                *)
EXTENDS ClientSession

MCConfigs == { {"password", "inactive"}, {"password", "nocache"},
               {"password", "retryAuth"}, {"relay"} }

MCBatches ==
    {<<m>> : m \in Messages} \cup
    {b \in Messages \X Messages : InARow(b)}
=============================================================================
