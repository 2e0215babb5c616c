--------------------------- MODULE LicensePolicy ---------------------------
(***************************************************************************)
(* The license policy of a feed: allow and deny lists over SPDX            *)
(* expressions.                                                            *)
(*                                                                         *)
(* An expression is [parens, alts]: alternatives joined by OR, each a      *)
(* sequence of terms joined by AND.  A term is [base, form, exc]: a        *)
(* license, how its id is spelled ("bare", "only", "later", "plus", or     *)
(* "folded" for a deprecated id that has an exception in its name), and    *)
(* what follows WITH: "" is nothing, "broken" a WITH without one or with   *)
(* two.  A package that declares no license is {}.                         *)
(***************************************************************************)
EXTENDS Naturals, Sequences, FiniteSets, SequencesExt, Results

CONSTANTS Deprecated,        \* bases whose bare id SPDX replaced by the -only one
          KnownExceptions, FoldedException

---------------------------------------------------------------------------
\* normalize_id; DEPRECATED
NormalizeId(t) ==
    [base |-> t.base,
     form |-> CASE t.form = "plus" -> "later"
                [] t.form = "folded" -> "only"
                [] t.form = "bare" /\ t.base \in Deprecated -> "only"
                [] OTHER -> t.form]

\* Term::parse: the exception written wins over the one the id implies
ParseTerm(t) ==
    [id |-> NormalizeId(t),
     exc |-> IF t.exc \in {"", "broken"} /\ t.form = "folded" THEN FoldedException ELSE t.exc,
     malformed |-> t.exc = "broken"]

ExceptionIsKnown(term) == ~term.malformed /\ term.exc \in {""} \cup KnownExceptions

\* Term::allows
RuleAllows(rule, term) ==
    /\ ExceptionIsKnown(term)
    /\ \/ rule.id = term.id
       \/ rule.id.form = "only" /\ term.id.form = "later" /\ rule.id.base = term.id.base
    /\ rule.exc = "" \/ rule.exc = term.exc

IsOneTerm(e) == ~e.parens /\ Len(e.alts) = 1 /\ Len(e.alts[1]) = 1
TermOf(e) == e.alts[1][1]

\* expression_is_allowed: a rule of several terms stands only for itself
ExpressionIsAllowed(allowed, e) ==
    \/ e \in allowed
    \/ /\ ~e.parens
       /\ \E a \in Range(e.alts) : \A t \in Range(a) : \E r \in allowed :
              IsOneTerm(r) /\ RuleAllows(ParseTerm(TermOf(r)), ParseTerm(t))

\* matches_license: a rule that is one id denies its license in every form; an
\* exception is denied by its own name only.
MatchesLicense(rule, e) ==
    \/ rule = e
    \/ /\ IsOneTerm(rule) /\ TermOf(rule).exc = ""
       /\ \E a \in Range(e.alts) : \E t \in Range(a) :
              NormalizeId(t).base = NormalizeId(TermOf(rule)).base

\* evaluate_license.  The policy is [enabled, unlicensed, block, blocked, allowed].
EvaluateLicense(policy, license) ==
    LET Ruling(flaw) == [allowed |-> ~flaw \/ ~policy.block, violation |-> flaw]
    IN  IF ~policy.enabled THEN Ruling(FALSE)
        ELSE IF license = {} THEN Ruling(~policy.unlicensed)
        ELSE LET e == The(license)
             IN  Ruling(\/ \E r \in policy.blocked : MatchesLicense(r, e)
                        \/ policy.allowed # {} /\ ~ExpressionIsAllowed(policy.allowed, e))

---------------------------------------------------------------------------
\* What the definitions promise together.

\* What SPDX means by a term: GPL-2.0, GPL-2.0-only and the deprecated id with an
\* exception name one version, GPL-2.0+ and GPL-2.0-or-later that one or any later.
SpdxMeaning(t) ==
    <<t.base, t.form \in {"plus", "later"},
      t.base \in Deprecated \/ t.form \in {"plus", "later", "only"},
      IF t.form = "folded" /\ t.exc = "" THEN FoldedException ELSE t.exc>>

Respelled(e, f) ==
    /\ e.parens = f.parens /\ Len(e.alts) = Len(f.alts)
    /\ \A i \in DOMAIN e.alts :
           /\ Len(e.alts[i]) = Len(f.alts[i])
           /\ \A k \in DOMAIN e.alts[i] : SpdxMeaning(e.alts[i][k]) = SpdxMeaning(f.alts[i][k])
WellFormed(e) == ~e.parens /\ \A a \in Range(e.alts) : \A t \in Range(a) : ExceptionIsKnown(ParseTerm(t))

\* Two spellings SPDX treats as one license get one verdict.
SpellingDoesNotMatter(policy, e, f) ==
    WellFormed(e) /\ Respelled(e, f) => EvaluateLicense(policy, {e}) = EvaluateLicense(policy, {f})

\* Under an allow list, more obligations never make a refused license
\* acceptable, and a further choice never makes an accepted one refused.
MoreTermsNeverHelp(policy, e, term) ==
    LET Flaw(f) == EvaluateLicense(policy, {f}).violation
        and == [e EXCEPT !.alts = [i \in DOMAIN @ |-> Append(@[i], term)]]
        or == [e EXCEPT !.alts = Append(@, <<term>>)]
    IN  \A r \in policy.allowed : IsOneTerm(r) =>
            /\ Flaw(e) => Flaw(and)
            /\ policy.blocked = {} /\ ~Flaw(e) => ~Flaw(or)

\* What is denied does not come in under another spelling, beside other
\* licenses or behind an exception; a blocking policy refuses it.
DeniedStaysOut(policy, e) ==
    policy.enabled =>
        \A r \in policy.blocked : \A a \in Range(e.alts) : \A t \in Range(a) :
            IsOneTerm(r) /\ TermOf(r).exc = "" /\ t.base = TermOf(r).base =>
                LET verdict == EvaluateLicense(policy, {e})
                IN  verdict.violation /\ verdict.allowed = ~policy.block
=============================================================================
