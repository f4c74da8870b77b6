--------------------------- MODULE MCProbeSession ---------------------------
(* Small instances of ProbeSession for TLC.                                *)
EXTENDS ProbeSession

Anonymous == {[interactive |-> FALSE, mtproto |-> TRUE]}
AuthSession == {[interactive |-> TRUE, mtproto |-> m] : m \in BOOLEAN}
EverySetting == Anonymous \cup AuthSession

\* A temporary database has no session to be Ready with.  The code treats the
\* login states of an --auth-session alike: one stands for them all.
MCReportedStates ==
  [s \in SettingsType |->
     IF s.interactive THEN {"WaitPhoneNumber", "Ready", "Closed"}
     ELSE {"WaitPhoneNumber", "Other", "Closed"}]

\* Noise on every command line, or only where there is no login to interleave it with.
OneNoise == [s \in SettingsType |-> 1]
NoiseIfAnonymous == [s \in SettingsType |-> IF s.interactive THEN 0 ELSE 1]
NoNoise == [s \in SettingsType |-> 0]

=============================================================================
