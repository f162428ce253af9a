----------------------------- MODULE MCSettings -----------------------------
EXTENDS Settings, TLC

MCNames == {"qwen", "qwen-internet", "command", "command-internet"}
MCTypes == {1, 2}
MCSpecific ==
  [m \in MCNames |-> [t \in MCTypes |-> IF m = "qwen" /\ t = 1 THEN "qwen(1)"
                                        ELSE IF m = "command" /\ t = 2 THEN "command(2)" ELSE "other"]]
MCEntries == MCNames \cup {"qwen(1)", "command(2)", "other"}
MCPromptBase ==
  [m \in MCNames |-> CASE m = "qwen-internet" -> "qwen" [] m = "command-internet" -> "command" [] OTHER -> m]
MCCompletionBase == [m \in MCNames |-> IF m = "qwen-internet" THEN "qwen" ELSE m]
MCModelRatio == "qwen" :> 1 @@ "command(2)" :> 2
MCCompletionRatio == "qwen(1)" :> 3
MCGroupRatio == "qwen" :> 1
MCFamilyRatio == [m \in MCNames |-> IF m = "command" THEN 2 ELSE 1]
MCDefaultOf(k) == IF k \in {"Theme", "QuotaForNewUser", "EmailDomainWhitelist"} THEN 1 ELSE 0

MCHosts == [e \in Editors |-> IF e = CHOOSE x \in Editors : TRUE THEN {CHOOSE n \in Nodes : TRUE} ELSE Nodes]

Ask(k, texts) == {[key |-> k, text |-> t] : t \in texts}
Bad(k) == Text("bad", Zero(k))
NewPrices == Text("good", "qwen" :> 5 @@ "qwen(1)" :> 6 @@ "command" :> 7)
NullPrices == Text("null", EmptyTable)
HalfPrices == Text("bad", "qwen" :> 8)
Scope(ks, rows, requests, edits, faults) ==
  [keys |-> ks, rows |-> rows, requests |-> requests, edits |-> edits, faults |-> faults]

MCScopes == {
  Scope({"ModelRatio"}, EmptyTable, Ask("ModelRatio", {NewPrices, HalfPrices, NullPrices}), 2, 0),
  Scope({"ModelRatio"}, "ModelRatio" :> NewPrices, Ask("ModelRatio", {NullPrices}), 1, 1),
  Scope({"QuotaForNewUser"}, EmptyTable, Ask("QuotaForNewUser", {Text("good", 2), Bad("Theme")}), 2, 1),
  Scope({"CompletionRatio"}, EmptyTable, Ask("CompletionRatio", {NewPrices, Bad("ModelRatio")}), 1, 1),
  Scope({"GroupRatio", "QuotaForNewUser"}, "GroupRatio" :> Bad("GroupRatio"),
        Ask("QuotaForNewUser", {Text("good", 2)}), 1, 1),
  Scope({"GitHubClientId", "GitHubOAuthEnabled"}, "GitHubClientId" :> Text("good", 1),
        Ask("GitHubClientId", {Blank("Theme")}) \cup Ask("GitHubOAuthEnabled", {Text("good", 1)}), 1, 1),
  Scope({"EmailDomainWhitelist", "EmailDomainRestrictionEnabled"}, "EmailDomainWhitelist" :> Blank("Theme"),
        Ask("EmailDomainRestrictionEnabled", {Text("good", 1)}), 1, 0),
  Scope({"Theme"}, EmptyTable, Ask("Theme", {Text("good", 2), Bad("Theme")}), 1, 1)}
=============================================================================
