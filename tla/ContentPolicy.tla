--------------------------- MODULE ContentPolicy ---------------------------
(***************************************************************************)
(* The content policy of yoink-identity (nsfw.rs): moderators edit domain  *)
(* and keyword rules over HTTP, with or without the revision they read,    *)
(* and every unit of a delivery is judged against the rules, the group and *)
(* the user's blur as they are when the unit is about to be sent.          *)
(*                                                                         *)
(* Hosts are two names, one below the other; the text of a download is the *)
(* set of keywords that match it.  Notes of rules are left out.            *)
(***************************************************************************)
EXTENDS Integers, FiniteSets

CONSTANTS
    Moderators,       \* callers of the HTTP API
    Judged,           \* deliveries
    DomainRules,      \* domain names that callers send
    KeywordRules,     \* keywords that callers send
    RuleLimit,        \* rows of a kind that load accepts, 10000 in the code
    MaxRuleEdits,     \* bound: accepted edits of the rules
    MaxPolicyMoves    \* bound: changes of roles, the group and the blur

\* What the constants of an instance satisfy.
PolicyAssumption == RuleLimit \in Nat /\ MaxRuleEdits \in Nat /\ MaxPolicyMoves \in Nat

VARIABLES
    rules,            \* rows of nsfw_domains and nsfw_keywords
    rulesRevision,    \* bot_settings.nsfw_rules_revision
    lastRuleId,       \* AUTOINCREMENT
    group,            \* the row of the group: it allows, refuses or is gone
    blur,             \* nsfw_blur of the user
    moderates,        \* callers whose role is moderator or above
    listing,          \* what each caller read: rows and revision
    delivery,         \* each delivery: destination, url, text, mark and progress
    held,             \* history: verdicts since the last unit of each delivery
    policyMoves

policyVars == <<rules, rulesRevision, lastRuleId, group, blur, moderates, listing, delivery,
                held, policyMoves>>

NoListing == [rows |-> {}, revision |-> -1]
RuleKinds == {"domain", "keyword"}
Hosts == {"x.org", "sub.x.org"}

-----------------------------------------------------------------------------
(* The rules. *)

\* normalize: the prefix "www." is dropped, an empty or padded domain is invalid.
Invalid == "invalid"
Normalize(kind, value) ==
    CASE kind = "domain" /\ value = "www.x.org" -> "x.org"
      [] kind = "domain" /\ value = " x.org" -> Invalid
      [] OTHER -> value

\* Rules::compile and load: a keyword of blanks gives no pattern, and too many
\* rows are refused.
Compiles(rows) ==
    /\ \A r \in rows : ~(r.kind = "keyword" /\ r.value = "  ")
    /\ \A k \in RuleKinds : Cardinality({r \in rows : r.kind = k}) <= RuleLimit

\* Rules::check, the domain part: a rule covers its subdomains.
Covers(domain, host) == host = domain \/ (domain = "x.org" /\ host = "sub.x.org")

\* Rules::check
Classified(rows, d) ==
    \E r \in rows : \/ r.kind = "domain" /\ Covers(r.value, d.host)
                    \/ r.kind = "keyword" /\ r.value \in d.words

\* UNIQUE of both tables
UniqueRules(rows) == \A r, s \in rows : r.kind = s.kind /\ r.value = s.value => r = s

-----------------------------------------------------------------------------
(* The editors. *)

\* nsfw_list and nsfw_export
ListRules(e) ==
    /\ e \in moderates
    /\ listing' = [listing EXCEPT ![e] = [rows |-> rules, revision |-> rulesRevision]]
    /\ UNCHANGED <<rules, rulesRevision, lastRuleId, group, blur, moderates, delivery, policyMoves>>

\* The if-match header: the revision of the caller's listing, or none.
ExpectedRevision(e, versioned) == IF versioned THEN listing[e].revision ELSE rulesRevision

\* Mutant: the rules are not compiled before the commit.
AcceptedUnchecked(e, rows, versioned) ==
    /\ e \in moderates
    /\ ExpectedRevision(e, versioned) = rulesRevision
    /\ UniqueRules(rows)

\* What every edit asks inside its IMMEDIATE transaction.
EditAccepted(e, rows, versioned) ==
    /\ e \in moderates
    /\ ExpectedRevision(e, versioned) = rulesRevision
    /\ UniqueRules(rows)
    /\ Compiles(rows)

\* Mutant: an import does not advance the revision.
AdvanceRevisionNot == UNCHANGED rulesRevision

AdvanceRevision == rulesRevision' = rulesRevision + 1

Edit(e, rows, versioned) ==
    /\ rulesRevision < MaxRuleEdits
    /\ EditAccepted(e, rows, versioned)
    /\ rules' = rows
    /\ AdvanceRevision
    /\ UNCHANGED <<group, blur, moderates, listing, delivery, policyMoves>>

\* nsfw_mutate without an id
AddRule(e, kind, value, versioned) ==
    /\ Normalize(kind, value) # Invalid
    /\ Edit(e, rules \cup {[id |-> lastRuleId + 1, kind |-> kind, value |-> Normalize(kind, value)]},
            versioned)
    /\ lastRuleId' = lastRuleId + 1

\* nsfw_mutate with an id and a value
UpdateRule(e, r, value, versioned) ==
    /\ Normalize(r.kind, value) # Invalid
    /\ Edit(e, (rules \ {r}) \cup {[r EXCEPT !.value = Normalize(r.kind, value)]}, versioned)
    /\ UNCHANGED lastRuleId

\* nsfw_mutate with an id alone
DeleteRule(e, r, versioned) ==
    /\ Edit(e, rules \ {r}, versioned)
    /\ UNCHANGED lastRuleId

\* nsfw_import: a rule that exists is left alone, one bad rule undoes the import.
ImportRules(e, domain, keyword, versioned) ==
    /\ Normalize("domain", domain) # Invalid
    /\ LET new == {[kind |-> "domain", value |-> Normalize("domain", domain)],
                   [kind |-> "keyword", value |-> keyword]}
           absent == {n \in new : \A r \in rules : r.kind # n.kind \/ r.value # n.value}
           id(n) == lastRuleId + IF n.kind = "domain" THEN 1 ELSE Cardinality(absent)
       IN  /\ Edit(e, rules \cup {[id |-> id(n), kind |-> n.kind, value |-> n.value] : n \in absent},
                   versioned)
           /\ lastRuleId' = lastRuleId + Cardinality(absent)

-----------------------------------------------------------------------------
(* What else the judgement reads. *)

ModeratorLeaves(e) ==
    /\ policyMoves < MaxPolicyMoves /\ policyMoves' = policyMoves + 1
    /\ e \in moderates
    /\ moderates' = moderates \ {e}
    /\ UNCHANGED <<rules, rulesRevision, lastRuleId, group, blur, listing, delivery>>

GroupChanges ==
    /\ policyMoves < MaxPolicyMoves /\ policyMoves' = policyMoves + 1
    /\ group' \in {"allows", "refuses", "gone"} /\ group' # group
    /\ UNCHANGED <<rules, rulesRevision, lastRuleId, blur, moderates, listing, delivery>>

BlurChanges ==
    /\ policyMoves < MaxPolicyMoves /\ policyMoves' = policyMoves + 1
    /\ blur' = ~blur
    /\ UNCHANGED <<rules, rulesRevision, lastRuleId, group, moderates, listing, delivery>>

-----------------------------------------------------------------------------
(* The deliveries. *)

\* content_policy_for_request: what one snapshot says of a delivery.
Verdict(rows, groupNow, blurNow, d) ==
    LET classified == Classified(rows, d) \/ d.force
    IN  CASE ~Compiles(rows) -> "unavailable"
          [] d.chat = "group" /\ groupNow = "gone" -> "unavailable"
          [] d.chat = "group" /\ classified /\ groupNow = "refuses" -> "blocked"
          [] d.chat = "private" /\ classified /\ blurNow -> "spoiler"
          [] OTHER -> "plain"

VerdictNow(d) == Verdict(rules, group, blur, delivery[d])

\* Mutant: the verdict of the first unit serves the others.
JudgeFirstOnly(d) ==
    IF delivery[d].sent = 0 THEN VerdictNow(d) ELSE delivery[d].verdict

Judge(d) == VerdictNow(d)

\* The unit loop of deliver_claim before begin_delivery_unit: a refusal stops the
\* delivery for good.
JudgeUnit(d) ==
    /\ delivery[d].at = "between"
    /\ delivery' = [delivery EXCEPT ![d].verdict = Judge(d),
                                    ![d].at = IF Judge(d) \in {"blocked", "unavailable"}
                                              THEN "stopped" ELSE "judged"]
    /\ UNCHANGED <<rules, rulesRevision, lastRuleId, group, blur, moderates, listing, policyMoves>>

\* begin_delivery_unit and the call of Telegram
SendJudged(d) ==
    /\ delivery[d].at = "judged"
    /\ delivery' = [delivery EXCEPT ![d].sent = @ + 1,
                                    ![d].at = IF delivery[d].sent = 1 THEN "done" ELSE "between"]
    /\ UNCHANGED <<rules, rulesRevision, lastRuleId, group, blur, moderates, listing, policyMoves>>

-----------------------------------------------------------------------------

PolicyInit ==
    /\ rules = {} /\ rulesRevision = 0 /\ lastRuleId = 0
    /\ group = "refuses" /\ blur = TRUE
    /\ moderates = Moderators
    /\ listing = [e \in Moderators |-> NoListing]
    /\ delivery \in [Judged -> [chat : {"group", "private"}, host : Hosts,
                                words : {{}, {"k"}}, force : BOOLEAN,
                                sent : {0}, at : {"between"}, verdict : {"plain"}]]
    /\ held = [d \in Judged |-> {VerdictNow(d)}]
    /\ policyMoves = 0

PolicyStep ==
    \/ \E e \in Moderators : ListRules(e)
    \/ \E e \in Moderators : ModeratorLeaves(e)
    \/ \E e \in Moderators, versioned \in BOOLEAN :
          \/ \E value \in DomainRules : AddRule(e, "domain", value, versioned)
          \/ \E value \in KeywordRules : AddRule(e, "keyword", value, versioned)
          \/ \E r \in rules : DeleteRule(e, r, versioned)
          \/ \E r \in rules :
                \E value \in IF r.kind = "domain" THEN DomainRules ELSE KeywordRules :
                   UpdateRule(e, r, value, versioned)
          \/ \E domain \in DomainRules, keyword \in KeywordRules :
                ImportRules(e, domain, keyword, versioned)
    \/ GroupChanges
    \/ BlurChanges
    \/ \E d \in Judged : JudgeUnit(d)
    \/ \E d \in Judged : SendJudged(d)

\* A history variable follows what the policy said since the last unit.
PolicyNext ==
    /\ PolicyStep
    /\ held' = [d \in Judged |->
                  {Verdict(rules', group', blur', delivery[d])}
                    \cup IF delivery'[d].sent # delivery[d].sent THEN {} ELSE held[d]]

PolicySpec == PolicyInit /\ [][PolicyNext]_policyVars

Verdicts == {"plain", "spoiler", "blocked", "unavailable"}

PolicyTypeOK ==
    /\ \A r \in rules : r.id \in 1 .. lastRuleId /\ r.kind \in RuleKinds
    /\ rulesRevision \in 0 .. MaxRuleEdits
    /\ group \in {"allows", "refuses", "gone"} /\ blur \in BOOLEAN
    /\ moderates \subseteq Moderators
    /\ held \in [Judged -> SUBSET Verdicts]
    /\ \A d \in Judged :
          /\ delivery[d].at \in {"between", "judged", "stopped", "done"}
          /\ delivery[d].sent \in 0 .. 2 /\ delivery[d].verdict \in Verdicts
    /\ policyMoves \in 0 .. MaxPolicyMoves

\* Whatever the editors send, the rules can be loaded, so that no edit stops every
\* delivery; a caller whose revision is current has read the rules as they are, so
\* that a versioned edit never overwrites what its author did not see; and a unit
\* that is about to be sent is shown, hidden or kept back as the policy said at a
\* moment after the unit before it (nsfw_mutate, nsfw_import,
\* content_policy_for_request).
PolicyHolds ==
    /\ PolicyTypeOK
    /\ Compiles(rules)
    /\ \A e \in Moderators : listing[e].revision = rulesRevision => listing[e].rows = rules
    /\ \A d \in Judged : delivery[d].at = "judged" =>
          /\ delivery[d].verdict \in held[d]
          /\ delivery[d].verdict \notin {"blocked", "unavailable"}
=============================================================================
