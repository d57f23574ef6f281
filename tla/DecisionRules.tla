---------------------------- MODULE DecisionRules ----------------------------
(***************************************************************************)
(* The rules that decide without keeping state: which protocol and power   *)
(* two endpoints settle on (internal/protocol), how far heat derates a     *)
(* charge (thermal), whether a cable is certified for it (cable), whether  *)
(* evidence suffices (certification) and how late a session is (sla).      *)
(*                                                                         *)
(* A behaviour asks one question and gets the code's answer.  Times,       *)
(* temperatures and watts are small numbers; an operand that is only       *)
(* checked for being there is left out.                                    *)
(***************************************************************************)
EXTENDS Nothing, Integers, FiniteSetsExt, SequencesExt

CONSTANTS
  Protocols,  \* names of charge protocols
  MaxPower,   \* bound on the watts in a question
  MaxCaps,    \* bound on the capabilities of an endpoint
  Battery,    \* the thermal thresholds of the battery: warn, throttle, shutdown
  Adapter,    \* and those of the adapter
  MaxTemp,    \* bound on a temperature
  MaxTime     \* bound on a time

Thresholds == [warn : Nat, throttle : Nat, shutdown : Nat]

ASSUME BoundsAreNumbers == {MaxPower, MaxCaps, MaxTemp, MaxTime} \subseteq Nat

\* NewController refuses any other policy.
ASSUME ThresholdsRise ==
  \A t \in {Battery, Adapter} :
    t \in Thresholds /\ 0 < t.warn /\ t.warn < t.throttle /\ t.throttle < t.shutdown

VARIABLES
  question,
  answer    \* <<>>, or a sequence of the one answer

ruleVars == <<question, answer>>

Refused(error) == [error |-> error, protocol |-> None, watts |-> 0, fallback |-> FALSE]

-----------------------------------------------------------------------------
(***************************************************************************)
(* Negotiator.Negotiate.  The charger's certified capabilities are put in  *)
(* a map, where the last of a name wins; the device's certified ones that  *)
(* are in it are candidates, at the lesser power of the two; the first     *)
(* candidate in the order of falling power that may be used is taken.      *)
(***************************************************************************)
Capability == [name : Protocols, watts : 0..MaxPower, certified : BOOLEAN]

Offers(q, name) ==
  {k \in DOMAIN q.charger :
     q.charger[k].name = name /\ q.charger[k].certified /\ q.charger[k].watts > 0}

Lesser(a, b) == IF a < b THEN a ELSE b

Candidates(q) ==
  {k \in DOMAIN q.device : q.device[k].certified /\ Offers(q, q.device[k].name) # {}}

Power(q, k) ==
  Lesser(q.device[k].watts, q.charger[Max(Offers(q, q.device[k].name))].watts)

\* Defect: the candidates are taken in the order of the device's list.
Before_AsListed(q, j, k) == j < k

\* sort.SliceStable
Before(q, j, k) == Power(q, j) > Power(q, k) \/ (Power(q, j) = Power(q, k) /\ j < k)

Watts(q, k) ==
  LET asked == Lesser(q.requested, Power(q, k))
  IN  IF q.cable > 0 THEN Lesser(asked, q.cable) ELSE asked

\* RequireStable compares with the first capability the charger lists.
Usable(q, k) ==
  /\ q.stable => Power(q, k) <= q.charger[1].watts
  /\ Watts(q, k) > 0

\* What comes first of K in the sorted list.
Foremost(q, K) == CHOOSE k \in K : \A j \in K : j = k \/ Before(q, k, j)

\* A request is unsafe when it asks for no power or an endpoint is too hot.
Negotiate(q) ==
  LET usable == {k \in Candidates(q) : Usable(q, k)}
      k == Foremost(q, usable)
  IN  IF q.unsafe THEN Refused("ErrUnsafeRequest")
      ELSE IF usable = {} THEN Refused("ErrNoCommonProtocol")
      ELSE [error |-> None, protocol |-> q.device[k].name, watts |-> Watts(q, k),
            fallback |-> \E j \in Candidates(q) : Before(q, j, k)]

-----------------------------------------------------------------------------
(***************************************************************************)
(* Controller.Decide: the power that is left, in percent.                  *)
(***************************************************************************)
Reached(q, level) == q.battery >= Battery[level] \/ q.adapter >= Adapter[level]

\* Defect: the battery's temperature hides the adapter's.
Multiplier_BatteryOnly(q) ==
  IF q.battery >= Battery["warn"]
  THEN IF q.battery >= Battery["shutdown"] THEN 0
       ELSE IF q.battery >= Battery["throttle"] THEN 50 ELSE 80
  ELSE IF q.adapter >= Adapter["shutdown"] THEN 0
       ELSE IF q.adapter >= Adapter["throttle"] THEN 50
       ELSE IF q.adapter >= Adapter["warn"] THEN 80 ELSE 100

Multiplier(q) ==
  IF Reached(q, "shutdown") THEN 0
  ELSE IF Reached(q, "throttle") THEN 50
  ELSE IF Reached(q, "warn") THEN 80 ELSE 100

(***************************************************************************)
(* Verifier.Verify: 1 when the cable is certified for the protocol and the *)
(* power, else 0.                                                          *)
(***************************************************************************)
Verify(q) ==
  IF /\ q.revoked = 0 \/ q.revoked > q.now
     /\ q.expires > q.now
     /\ q.watts <= q.rating
     /\ q.supported
  THEN 1 ELSE 0

(***************************************************************************)
(* RuleSet.Evaluate: 1 for "certified", 0 for "retest_required".           *)
(***************************************************************************)
Evaluate(q) ==
  IF q.complete /\ q.expires >= q.now + q.validity THEN 1 ELSE 0

(***************************************************************************)
(* RuleSet.Classify of a session that negotiates since time 0: 2 on time,  *)
(* 1 overdue, 0 critical.  Only an active rule replaces the default.       *)
(***************************************************************************)
ActiveMax(q) == IF q.rule = "active" THEN q.max ELSE q.default

Classify(q) ==
  IF ActiveMax(q) <= 0 THEN 2  \* "unknown_protocol", never late
  ELSE IF q.now <= ActiveMax(q) THEN 2
  ELSE IF q.now <= 2 * ActiveMax(q) THEN 1 ELSE 0

-----------------------------------------------------------------------------
\* A cable for MaxPower would limit nothing.
Questions ==
  [kind : {"negotiate"}, device : BoundedSeq(Capability, MaxCaps),
   charger : BoundedSeq(Capability, MaxCaps), requested : 1..MaxPower,
   cable : 0..MaxPower - 1, stable : BOOLEAN, unsafe : BOOLEAN]
    \cup [kind : {"thermal"}, battery : 0..MaxTemp, adapter : 0..MaxTemp]
    \cup [kind : {"cable"}, now : 0..MaxTime, expires : 0..MaxTime, revoked : 0..MaxTime,
          watts : 1..MaxPower, rating : 1..MaxPower, supported : BOOLEAN]
    \cup [kind : {"evidence"}, complete : BOOLEAN, now : 0..MaxTime, expires : 0..MaxTime,
          validity : 1..MaxTime]
    \cup [kind : {"transit"}, now : 0..MaxTime, max : 0..MaxTime, default : 0..MaxTime,
          rule : {"none", "draft", "active", "deprecated"}]

Decision(q) ==
  CASE q.kind = "negotiate" -> Negotiate(q)
    [] q.kind = "thermal"   -> Multiplier(q)
    [] q.kind = "cable"     -> Verify(q)
    [] q.kind = "evidence"  -> Evaluate(q)
    [] q.kind = "transit"   -> Classify(q)

RuleInit == question \in Questions /\ answer = <<>>

Decide ==
  /\ answer = <<>>
  /\ answer' = <<Decision(question)>>
  /\ UNCHANGED question

RuleNext == Decide

RuleSpec == RuleInit /\ [][RuleNext]_ruleVars

-----------------------------------------------------------------------------
(***************************************************************************)
(* What both sides could settle on: a protocol that an entry of either     *)
(* list certifies, at a power that neither of the two entries exceeds; and *)
(* what stability leaves of it.                                            *)
(***************************************************************************)
CertifiedIn(capabilities) == {c \in Range(capabilities) : c.certified}

Deals(q) ==
  {[protocol |-> p[1].name, watts |-> Lesser(p[1].watts, p[2].watts)] :
     p \in {p \in CertifiedIn(q.device) \X CertifiedIn(q.charger) :
             p[1].name = p[2].name /\ p[2].watts > 0}}

StableDeals(q) ==
  {d \in Deals(q) : d.watts > 0 /\ (q.stable => d.watts <= q.charger[1].watts)}

\* What is drawn on a deal: no more than was asked for and the cable carries.
Drawn(q, watts) ==
  Min({q.requested, watts} \cup IF q.cable > 0 THEN {q.cable} ELSE {})

\* The charger offers no protocol in two entries of its list.
OffersOnce(q) ==
  \A j, k \in DOMAIN q.charger :
    k \in Offers(q, q.charger[j].name) /\ j \in Offers(q, q.charger[j].name) => j = k

\* Negotiation never settles on anything but a deal that both sides certify,
\* drawn within what was asked for and what the cable carries, and an unsafe
\* request is refused as such.  Where the charger offers each protocol once it
\* settles on the most powerful deal there is, refuses only when there is none,
\* and calls it a fallback exactly when a stronger one was passed over.  (Of a
\* protocol offered twice the later entry replaces the earlier, stronger or
\* not: a better deal may then be missed, and nothing better is claimed.)
NegotiatesBest ==
  question.kind = "negotiate" /\ answer # <<>> =>
    LET deal == answer[1]
        deals == StableDeals(question)
        best == Max({d.watts : d \in deals})
    IN  IF question.unsafe THEN deal = Refused("ErrUnsafeRequest")
        ELSE /\ \/ deal = Refused("ErrNoCommonProtocol")
                \/ \E d \in deals : /\ deal.protocol = d.protocol
                                     /\ deal.watts = Drawn(question, d.watts)
             /\ OffersOnce(question) /\ deals # {} =>
                  /\ deal # Refused("ErrNoCommonProtocol")
                  /\ deal.watts = Drawn(question, best)
                  /\ [protocol |-> deal.protocol, watts |-> best] \in deals
                  /\ deal.fallback <=> \E d \in Deals(question) : d.watts > best

\* The same question asked later, or of something hotter.
Tighter(q) ==
  CASE q.kind = "thermal" ->
         [kind : {"thermal"}, battery : q.battery..MaxTemp, adapter : q.adapter..MaxTemp]
    [] q.kind \in {"cable", "evidence", "transit"} ->
         {[q EXCEPT !.now = t] : t \in q.now..MaxTime}
    [] OTHER -> {}

\* Time and heat only ever tighten an answer: no hotter reading of either
\* sensor gives more power, and no cable, evidence or delay that was refused
\* or late is good again later.
TimeAndHeatOnlyTighten ==
  answer # <<>> => \A r \in Tighter(question) : Decision(r) <= answer[1]
=============================================================================
