----------------------------- MODULE MCRecurring -----------------------------
(* One scheduler, as deployed (deploy/k8s/scheduler-deployment.yaml), two  *)
(* clients that edit one template, two ticks of its schedule.              *)
EXTENDS Recurring
=============================================================================
