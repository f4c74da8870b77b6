----------------------------- MODULE MCRelease -----------------------------
EXTENDS Release, TLC

CONSTANTS row, v3

\* One group with its two rows: groups meet only where all of them must be prepared.
MCGroups == {"musl-static"}
MCLegs == {row, v3}
MCLegGroup == [l \in MCLegs |-> "musl-static"]
MCSymmetry == Permutations(MCLegs)
\* One tag is a version and one is not (validate-tag).
MCTags == {"1.2.3", "v1"}
MCMalformed == {"v1"}

\* The pin is bumped with the fingerprint, and without it.
MCTDs == {"td1", "td2"}
MCFingerprints == {"f1", "f2"}
MCCommits == {[td |-> "td1", fingerprint |-> "f1"], [td |-> "td2", fingerprint |-> "f2"],
              [td |-> "td2", fingerprint |-> "f1"]}
=============================================================================
