----------------------------- MODULE MCWebhooks -----------------------------
(* One job with a webhook of its own for "completed", and one tenant       *)
(* webhook for all events.                                                 *)
EXTENDS Webhooks

OwnEvents == [j \in Jobs |-> {"completed"}]
AllEvents == [h \in Hooks |-> Events]
=============================================================================
