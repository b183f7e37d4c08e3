----------------------------- MODULE MCServices -----------------------------
(***************************************************************************)
(* Catalog's books, a request on its way through the Edge API, the layers  *)
(* around Edge's handlers, and the environments of all the services.  They *)
(* share no state, so each behaviour moves one of them and the others rest *)
(* in their initial states.                                                *)
(***************************************************************************)
EXTENDS MCCatalogBook, Deployment, EdgeRequests, EdgeAdmission

VARIABLE side

servicesVars == << vars, dvars, rvars, avars, side >>

ServicesInit ==
  /\ Init /\ DeploymentInit /\ RequestInit /\ AdmissionInit
  /\ side \in {"catalog", "deployment", "request", "admission"}

ServicesNext ==
  \/ side = "catalog"    /\ Next           /\ UNCHANGED << dvars, rvars, avars, side >>
  \/ side = "deployment" /\ DeploymentNext /\ UNCHANGED << vars, rvars, avars, side >>
  \/ side = "request"    /\ RequestNext    /\ UNCHANGED << vars, dvars, avars, side >>
  \/ side = "admission"  /\ AdmissionNext  /\ UNCHANGED << vars, dvars, rvars, side >>

ServicesSpec == ServicesInit /\ [][ServicesNext]_servicesVars
=============================================================================
