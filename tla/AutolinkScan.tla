---------------------------- MODULE AutolinkScan ----------------------------
(***************************************************************************)
(* scan_autolinks of rs/src/inline.rs: the GFM autolink literals of one    *)
(* run of text.  "w" stands for www and "http://" for a scheme.  The two   *)
(* caps that keep the scan linear are constants.                           *)
(***************************************************************************)
EXTENDS InlineLexis

CONSTANTS
  MaxDomain,       \* MAX_AUTOLINK_DOMAIN
  MaxLocal         \* MAX_EMAIL_LOCAL

DomainChars == Alnum \cup {"_", "-", "."}     \* is_domain_char
LocalChars  == Alnum \cup {"_", "-", "."}     \* is_email_local_char
Trailing    == {"!", ".", ":", "*", "_", "~"}      \* dropped wherever they trail

Count(s, from, to, c) == Cardinality({i \in from..(to - 1) : s[i] = c})

\* is_autolink_start, and starts_after_delimiter's answer for the first one.
IsAutolinkStart(s, i, atStart) ==
  IF i = 1 THEN atStart ELSE s[i-1] \in Spaces \cup {"*", "_", "~", "("}

\* scan_domain_end: the run of domain characters, no longer than the cap.
DomainEnd(s, from) ==
  Min({Stop(s, from, DomainChars), from + MaxDomain, Len(s) + 1})

\* is_valid_domain: a period, and no underscore in the last two segments.
ValidDomain(s, from, to) ==
  LET dots == {i \in from..(to - 1) : s[i] = "."}
  IN  /\ dots # {}
      /\ \A i \in from..(to - 1) : s[i] = "_" =>
           Cardinality({d \in dots : d > i}) >= 2

\* The start of the entity-like text that ends on the `;` before e, 0 if none.
EntityStart(s, start, e) ==
  LET amps == {j \in start..(e - 3) : s[j] = "&" /\ \A k \in (j + 1)..(e - 2) : s[k] \in Alnum}
  IN  IF amps = {} THEN 0 ELSE Min(amps)

\* trim_autolink_end.  The parentheses are counted once, at the first closing
\* one met, and the count of closing ones is kept up from there.
TrimAutolinkEnd(s, start, end) ==
  LET trim[e \in 1..(Len(s) + 1), counted \in BOOLEAN, opening \in 0..Len(s), closing \in 0..Len(s)] ==
        CASE e <= start -> e
          [] e > start /\ s[e-1] \in Trailing -> trim[e-1, counted, opening, closing]
          [] e > start /\ s[e-1] = ")" /\ ~counted ->
               trim[e, TRUE, Count(s, start, e, "("), Count(s, start, e, ")")]
          [] e > start /\ s[e-1] = ")" /\ counted ->
               IF closing <= opening THEN e ELSE trim[e-1, TRUE, opening, closing - 1]
          [] e > start /\ s[e-1] = ";" /\ EntityStart(s, start, e) # 0 ->
               trim[EntityStart(s, start, e), counted, opening, closing]
          [] OTHER -> e
  IN  trim[end, FALSE, 0, 0]

None == [start |-> 0, end |-> 0]

\* Rewind from the `@` to the start of the local part; 0 when it is longer
\* than the cap.
LocalStart(s, at, last) ==
  LET capped == at - MaxLocal
      floor  == Max({last, capped})
      k      == Max({floor} \cup {i \in floor..at : i > 1 /\ s[i-1] \notin LocalChars})
  IN  IF k = capped /\ k > 1 /\ s[k-1] \in LocalChars THEN 0 ELSE k

\* The address whose `@` is at i, not reaching back past `last`.
EmailAt(s, i, last, atStart) ==
  LET k    == LocalStart(s, i, last)
      run  == Stop(s, i + 1, DomainChars)
      end  == Max({i + 1} \cup {e \in (i + 2)..run : s[e-1] # "."})
  IN  IF /\ s[i] = "@" /\ k # 0 /\ k < i /\ IsAutolinkStart(s, k, atStart)
         /\ end > i + 1 /\ s[end-1] \notin {"-", "_"} /\ Count(s, i + 1, end, ".") > 0
      THEN [start |-> k, end |-> end] ELSE None

\* The domain is not looked at again once the end is trimmed.
Survives_unchecked(s, start, to) == TRUE

\* The domain is validated again over what the trimming left of it.
Survives(s, start, to) == ValidDomain(s, start, to)

\* The www or scheme autolink that starts at i.
UrlAt(s, i, atStart) ==
  LET www    == s[i] = "w" /\ Ch(s, i + 1) = "."
      domain == IF www THEN i ELSE i + 1
      dEnd   == DomainEnd(s, domain)
      run    == Min({e \in i..(Len(s) + 1) : AtEnd(s, e) \/ s[e] \in Spaces \cup {"<"}})
      end    == TrimAutolinkEnd(s, i, run)
  IN  IF /\ IsAutolinkStart(s, i, atStart)
         /\ www \/ s[i] = "http://"
         /\ ValidDomain(s, domain, dEnd)
         /\ end > domain
         /\ Survives(s, domain, Min({dEnd, end}))
      THEN [start |-> i, end |-> end] ELSE None

\* scan_autolinks: left to right, none reaching back into the one before it.
Autolinks(s, atStart) ==
  LET scan[i \in 1..(Len(s) + 1), last \in 1..(Len(s) + 1)] ==
        IF AtEnd(s, i) THEN <<>>
        ELSE LET m == IF s[i] = "@" THEN EmailAt(s, i, last, atStart) ELSE UrlAt(s, i, atStart)
             IN  IF m = None THEN scan[i + 1, last] ELSE <<m>> \o scan[m.end, m.end]
  IN  scan[1, 1]
=============================================================================
