------------------------------ MODULE MCIntake ------------------------------
(* Intakes of three teens who may share a thread or a consent id.             *)
EXTENDS Intake, TLC

CONSTANTS t1, t2, t3, k1, k2, k3, k4, r1, r2

Consent(id, teen, kind, granted) ==
    [id |-> id, teen |-> teen, kind |-> kind, granted |-> granted]
Both(t, own, adult) ==
    <<Consent(own, t, "personal_data", TRUE), Consent(adult, t, "trusted_adult_authority", TRUE)>>
Setup(t, thread, age, given) ==
    [teen |-> t, thread |-> thread, age |-> age, consents |-> given]

(* Apart from sound setups: ages outside the range, a grant withdrawn in the *)
(* same list, one id for two kinds, another teen's record, and a setup that  *)
(* withdraws a consent under the id of another teen's.                       *)
MCConsentId == 1..10
MCSetups ==
    {Setup(t1, "x", 13, Both(t1, 1, 2)),
     Setup(t1, "y", 17, Both(t1, 3, 4) \o <<Consent(5, t1, "peer_cohort", FALSE)>>),
     Setup(t1, "x", 12, Both(t1, 1, 2)),
     Setup(t2, "x", 14, Both(t2, 6, 7)),
     Setup(t2, "z", 15, Both(t2, 6, 6)),
     Setup(t2, "z", 15, Both(t2, 6, 7) \o <<Consent(8, t2, "personal_data", FALSE)>>),
     Setup(t2, "y", 18, Both(t2, 6, 7)),
     Setup(t3, "y", 16, Both(t3, 9, 10) \o <<Consent(1, t3, "peer_cohort", FALSE)>>),
     Setup(t3, "z", 16, Both(t3, 9, 10) \o <<Consent(6, t2, "peer_cohort", TRUE)>>),
     Setup(t3, "w", 16, Both(t3, 9, 10))}

Symmetry == Permutations({r1, r2}) \cup Permutations({k1, k2, k3, k4})
=============================================================================
