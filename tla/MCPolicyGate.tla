---------------------------- MODULE MCPolicyGate ----------------------------
(* A small instance of PolicyGate for TLC: four policy files and requests   *)
(* that differ in what the contract, policy, hashing or the backend sees.   *)
EXTENDS PolicyGate, TLC

CONSTANTS a1, o1, o2, p1, p2, p3, home, away

Symmetry == Permutations(Pids)

\* A clean draft to a colleague.
Draft ==
  [action |-> "create_draft",
   fields |-> [actor_id      |-> "line",
               content       |-> "text",
               recipients    |-> "addresses",
               sender        |-> "address",
               subject       |-> "line",
               justification |-> "text"],
   params |-> [correlation_id |-> "line"],
   authority |-> FALSE,
   mail   |-> [action |-> "create_draft", topics |-> {}, length |-> 1, justified |-> TRUE,
               to |-> <<home>>, sender |-> home]]

With(q, f, k) == [q EXCEPT !.fields = (f :> k) @@ @]

External(q) == [q EXCEPT !.mail.to = <<home, away>>]
As(action, q) == [q EXCEPT !.action = action, !.mail.action = action]

\* One address in place of a list: its characters have no domain.
ScalarRecipient ==
  [With(Draft, "recipients", "address") EXCEPT !.mail.to = <<NoDomain, NoDomain>>]

MCRequests ==
  {Draft,
   [External(Draft) EXCEPT !.mail.topics = {"urgency_language"}],
   ScalarRecipient,
   With(Draft, "content", "white"),
   With(Draft, "content", "hidden"),
   With(Draft, "message_ids", "mixed"),
   With(Draft, "attachment_ids", "number"),
   With(Draft, "sender", "null"),
   As("send", External(Draft)),
   With(As("send", External(Draft)), "message_ids", "mixed"),
   [As("archive", Draft) EXCEPT !.authority = TRUE],
   As("read", Draft),
   [Draft EXCEPT !.action = "purge", !.params = <<>>]}

\* The defaults of VMGAPolicy, with small numbers.
Default ==
  [rules |->
     [allowed |-> {}, denied |-> {}, approval |-> [a \in Switchable |-> TRUE],
      kineticApproval |-> TRUE, baselines |-> Baselines, maxLength |-> 1,
      requireJustification |-> TRUE, allowExternalDrafts |-> FALSE, externalDeny |-> TRUE,
      internal |-> {home}, highRisk |-> {"urgency_language"}],
   threshold |-> 2, approvers |-> {}, unknown |-> {}]

MCFiles ==
  {Default,
   [Default EXCEPT !.rules.allowExternalDrafts = TRUE, !.rules.internal = {home, away},
                   !.approvers = {o1}, !.rules.approval["archive"] = FALSE,
                   !.rules.denied = {"SEND"}],
   [Default EXCEPT !.rules.denied = {"create_draft"}, !.threshold = 1],
   [Default EXCEPT !.unknown = {"deny_everything"}]}

MCActors == {a1}
MCApprovers == {o1, o2}
MCPids == {p1, p2}
MCDomains == {home, away, NoDomain}
=============================================================================
