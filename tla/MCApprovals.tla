----------------------------- MODULE MCApprovals -----------------------------
(* Small instances of Approvals for TLC.                                   *)
EXTENDS Approvals, TLC

CONSTANTS s1, s2,       \* secrets
          v1, v2,       \* checksums of two versions of the signing tool
          a1, a2        \* addresses

Word(w) == [kind |-> "plain", value |-> w]
Arg(kind, v) == [kind |-> kind, value |-> v]

\* A command with one password or another, in every form there is.
Command(v) == <<Arg("inline", v), Arg("flag", "-pin"), Arg("flag", "-keypass"), Word(v),
                Arg("flag", "-p"), Arg("colon", v), Arg("colon", v), Word("in.jar")>>
MCCommands == {Command(s1), Command(s2)}

\* The checksum of the running executable changes with an upgrade; the account
\* cannot be determined.
Machine(version) ==
    [f \in MachineFields |->
        CASE f = "signing_application"      -> "tool"
          [] f = "signing_application_hash" -> version
          [] f = "hostname"                 -> "host"
          [] f = "os_username"              -> Unset]
MCMachines == {Machine(v1), Machine(v2)}

Config(count, duration, exclude, ip) ==
    [SigningCount |-> count, SigningDuration |-> duration,
     exclude |-> exclude, ipAddress |-> ip]

\* One signing of the very same situation; one by a pinned address, whatever the
\* data; an hour from any address, whatever the command; no requests; an invalid one.
MCConfigs ==
    {Config(1, Unset, {}, Unset), Config(1, Unset, {"data_hash"}, a1),
     Config(0, 60, {"ip_address", "command"}, a1),
     Config(0, Unset, {}, Unset), Config(-1, Unset, {}, Unset)}
MCSecrets == {s1, s2}
=============================================================================
