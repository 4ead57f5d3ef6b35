----------------------------- MODULE Classifiers -----------------------------
(***************************************************************************)
(* Which messages are read as receipts (mail-classifiers.ts), decided from  *)
(* sender, subject and snippet before any body is fetched.                  *)
(*                                                                          *)
(* A domain is the sequence of its labels.  Subject and snippet are the     *)
(* sets of topics that the patterns find in them.                           *)
(***************************************************************************)
EXTENDS Sequences, SequencesExt

CONSTANTS
    BlockBankCardAlerts,
    BankSenders, BankDomains,  \* addresses of card alerts, and their domains
    PromoSenders,              \* addresses like newsletter@
    DomainRules                \* sequence of [domains, kind, topics]

ASSUME ClassifierAssumption == BlockBankCardAlerts \in BOOLEAN

Alert == {"transaction alert", "card activity"}
Promotion == {"sale", "unsubscribe"}

Undecided == [outcome |-> "none"]
Ignore(reason) == [outcome |-> "ignore", reason |-> reason]
Classify(kind) == [outcome |-> "classify", kind |-> kind]

Topics(mail) == mail.subject \cup mail.snippet

\* A sender's domain that merely contains one of the bank's is taken for it; here
\* a domain contains the labels of another in a row.
HasLabels(domain, labels) ==
    \E i \in 0 .. Len(domain) - Len(labels) :
        SubSeq(domain, i + 1, i + Len(labels)) = labels

BankAlert(mail) ==
    IF ~BlockBankCardAlerts THEN Undecided
    ELSE IF mail.from \in BankSenders \/ \E d \in BankDomains : HasLabels(mail.domain, d)
         THEN Ignore("bank_card_alert_from")
    ELSE IF Topics(mail) \cap Alert # {} THEN Classify("bank_card_alert")
    ELSE Undecided

Marketing(mail) ==
    IF mail.from \in PromoSenders THEN Ignore("marketing_sender")
    ELSE IF Topics(mail) \cap Promotion # {} THEN Classify("marketing")
    ELSE Undecided

Applies_Anywhere(rule, mail) ==
    /\ \E d \in rule.domains : HasLabels(mail.domain, d)
    /\ rule.topics # {} => rule.topics \cap mail.subject # {}

\* The domain of the rule or one of its subdomains, and its topic if it has any;
\* the snippet does not count.
Applies(rule, mail) ==
    /\ \E d \in rule.domains : IsSuffix(d, mail.domain)
    /\ rule.topics # {} => rule.topics \cap mail.subject # {}

ByDomain(mail) ==
    LET first == SelectInSeq(DomainRules, LAMBDA rule : Applies(rule, mail))
    IN IF first = 0 THEN Undecided ELSE Classify(DomainRules[first].kind)

Classifiers(mail) == <<BankAlert(mail), Marketing(mail), ByDomain(mail)>>

\* The first decisive result wins.
ClassifyMail(mail) ==
    LET first == SelectInSeq(Classifiers(mail), LAMBDA result : result # Undecided)
    IN IF first = 0 THEN Classify("unknown") ELSE Classifiers(mail)[first]

\* Kinds that never proceed to receipt.parse.
Excluded == {"marketing", "bank_card_alert"}

\* What ingest makes of it: the row of the message, and whether it is parsed.
Ingested(mail) ==
    LET result == ClassifyMail(mail)
    IN IF result.outcome = "ignore"
       THEN [status |-> "ignored", kind |-> "none", why |-> result.reason]
       ELSE IF result.kind \in Excluded
       THEN [status |-> "ignored", kind |-> result.kind, why |-> "excluded_kind"]
       ELSE [status |-> "classified", kind |-> result.kind, why |-> "none"]

=============================================================================
