------------------------------ MODULE MCEvidence ------------------------------
(***************************************************************************)
(* Two directories, two scans, two days.   The control "ssh" fails on a      *)
(* server, twice when two rules of the same group expose it; "mfa" fails   *)
(* on a person; "keys" fails on the whole tenant, for a key that grows     *)
(* old; "udata" reads a value that redaction hides; "extra" is known to a  *)
(* rule of --policy-dir only.                                              *)
(***************************************************************************)
EXTENDS Evidence

CONSTANTS mcDefault, mcRelaxed

mcControls == {"ssh", "mfa", "keys"}
mcFacts == {"open", "open too", "no mfa", "old key", "password", "house rule"}
mcFactControl ==
    [f \in mcFacts |-> CASE f \in {"open", "open too"} -> "ssh" [] f = "no mfa" -> "mfa"
                         [] f \in {"old key", "password"} -> "keys" [] f = "house rule" -> "extra"]
mcFactResource ==
    [f \in mcFacts |-> CASE f \in {"open", "open too", "house rule"} -> "vm"
                         [] f = "no mfa" -> "alice" [] f \in {"old key", "password"} -> "tenant"]
mcFactSince == [f \in mcFacts |-> IF f = "old key" THEN 2 ELSE 0]
mcSecret == {"password"}
mcExternal == {"house rule"}
mcResources == {"vm", "alice"}
mcNameOf == [r \in mcResources |-> IF r = "vm" THEN "vm" ELSE "alice@"]
mcStableOf == [r \in mcResources |-> IF r = "vm" THEN "vm" ELSE "u-1"]
mcConfigs == {mcDefault, mcRelaxed}
mcRelaxedBy == [c \in mcConfigs |-> IF c = mcRelaxed THEN {"keys"} ELSE {}]
mcLangs == {"fr", "en"}

mcTenant(facts, present, incomplete, target) ==
    [facts |-> facts, present |-> present, incomplete |-> incomplete, target |-> target]
mcAll == mcTenant({"open", "no mfa", "old key", "house rule"}, mcResources, FALSE, "eu")
mcTwice == mcTenant({"open", "open too"}, {"vm"}, FALSE, "eu")
mcClean == mcTenant({}, {"vm"}, FALSE, "eu")
mcBlind == mcTenant({"no mfa"}, {"alice"}, TRUE, "eu")
mcLeaky == mcTenant({"password", "no mfa"}, {"alice"}, FALSE, "eu")
mcOther == mcTenant({}, {"vm"}, FALSE, "us")
mcTenants == {mcAll, mcTwice, mcClean, mcBlind, mcLeaky, mcOther}

mcNoPolicy == [given |-> FALSE, config |-> mcDefault, exemptions |-> <<>>]
mcWaive(c, r, t) == [control |-> c, resource |-> r, expires |-> t]
mcWaiver == [given |-> TRUE, config |-> mcDefault,
             exemptions |-> <<mcWaive("mfa", "alice@", 1), mcWaive("keys", AnySubject, 2)>>]
mcLoose == [given |-> TRUE, config |-> mcRelaxed, exemptions |-> <<>>]
mcPolicies == {mcNoPolicy, mcWaiver, mcLoose}

mcScan(t, p, redact, external, lang) ==
    [tenant |-> t, policy |-> p, redact |-> redact, external |-> external, lang |-> lang]
mcRequests ==
    {mcScan(mcAll, p, FALSE, FALSE, "fr") : p \in mcPolicies}
    \cup {mcScan(t, mcNoPolicy, FALSE, FALSE, "en") : t \in {mcClean, mcBlind, mcTwice}}
    \cup {mcScan(mcAll, mcWaiver, TRUE, TRUE, "en"), mcScan(mcLeaky, mcLoose, TRUE, FALSE, "fr"),
          mcScan(mcOther, mcNoPolicy, FALSE, FALSE, "fr")}

=============================================================================
