--------------------------- MODULE MCNodeReports ---------------------------
(***************************************************************************)
(* What nodes report, in four parts that share no state: a behaviour is    *)
(* one of NodePeering, NodeNotices, Connectivity or Certificates, and the  *)
(* others stay as they start.                                              *)
(***************************************************************************)
EXTENDS NodePeering, NodeNotices, Connectivity, Certificates, TLC

VARIABLE part

Init ==
    /\ part \in {"peering", "notices", "connectivity", "certificates"}
    /\ PeeringInit /\ NoticesInit /\ ConnectivityInit /\ CertificatesInit

Next ==
    /\ UNCHANGED part
    /\ \/ /\ part = "peering" /\ PeeringNext
          /\ UNCHANGED <<noticeVars, connectivityVars, certificateVars>>
       \/ /\ part = "notices" /\ NoticesNext
          /\ UNCHANGED <<peeringVars, connectivityVars, certificateVars>>
       \/ /\ part = "connectivity" /\ ConnectivityNext
          /\ UNCHANGED <<peeringVars, noticeVars, certificateVars>>
       \/ /\ part = "certificates" /\ CertificatesNext
          /\ UNCHANGED <<peeringVars, noticeVars, connectivityVars>>

Spec == Init /\ [][Next]_<<part, peeringVars, noticeVars, connectivityVars, certificateVars>>

\* The parts share model values, so that these permutations serve all of them: PeerNodes are
\* also the ChallengeRows, Machines also the handlers in flight of the other parts.
ReportSymmetry == Permutations(PeerNodes) \cup Permutations(Machines)
=============================================================================
