---------------------------- MODULE MCArtifacts ----------------------------
(* A finite instance of Artifacts for TLC.                                 *)
EXTENDS Artifacts, FiniteSets, TLC

CONSTANTS rates, sms, c1, c2, p1, p2, p3, near, far

MCTools == {rates, sms}
MCBuiltIn == {sms}
MCPublications == {c1, c2}
MCProcesses == {p1, p2, p3}
MCHosts == {near, far}
\* One platform shares the directory of the integrator, the others have one of their own.
MCHostOf == (p1 :> near) @@ (p2 :> far) @@ (p3 :> far)

Symmetric == Permutations(Publications) \cup Permutations({p2, p3})

\* Bound: after a disturbance, when only OnlyOwnCodeRuns still speaks, there is one event,
\* and one platform at work at a time.
AfterDisturbance ==
  disturbed => events <= 1 /\ Cardinality({p \in Processes : call[p].pc # "idle"}) <= 1

\* The built-in name was called, published or removed.
BuiltInTouched ==
  \/ published[sms] # {} \/ last[p1][sms] # None
  \/ \E c \in Publications : InFlight(c) /\ pub[c].tool = sms
  \/ removal.pc # "idle" /\ removal.tool = sms

\* Bound: with that there is one event or fault, and the platforms elsewhere rest.
BuiltInBeside ==
  BuiltInTouched => events + faults <= 1 /\ \A p \in {p2, p3} : call[p].pc = "idle"
=============================================================================
