--------------------------------- MODULE Url ---------------------------------
(***************************************************************************)
(* From the string of a url to the request: Url::Parse, the copies of the  *)
(* Url it returns, and what both clients make a session with.              *)
(*                                                                         *)
(* A url is its scheme, up to and with "://", and the text behind it.  The *)
(* text is cut into tokens: the delimiters, one by one, and the words      *)
(* between them.  What matters of a word is what std::stoi reads in it.    *)
(***************************************************************************)
EXTENDS Integers, Sequences

CONSTANTS
  Delims,      \* of {":", "/", "?", "#", "blank"}, the ones that are used
  Words,       \* the words that are used
  MaxTokens    \* bound: how many tokens a text has

ASSUME MaxTokensIsNat == MaxTokens \in Nat

MaxPort == 65535     \* of 16 bits

Schemes == {"empty", "http", "https", "ftp", "HTTP"}

\* No two words stand side by side: they would be one.
Texts == {t \in UNION {[1..n -> Delims \cup Words] : n \in 0..MaxTokens} :
            \A i \in 1..(Len(t) - 1) : t[i] \in Delims \/ t[i + 1] \in Delims}

\* What std::stoi(word, nullptr, 0) reads: octal and hexadecimal, too, and the
\* beginning of a word.  It throws for a word without a number, and for one too
\* large for an int.
Readings == {<<"80", 80>>, <<"443", 443>>, <<"65535", 65535>>, <<"65536", 65536>>, <<"-1", -1>>,
             <<"0x50", 80>>, <<"080", 0>>, <<"80a", 80>>}

VARIABLES
  scheme,   \* the url string: its scheme ("empty" if there is no string), ...
  text,     \* ... and the rest
  stage,    \* "given", "refused", "thrown", "parsed", "made"
  code,     \* the code the error handler was called with, or "none"
  url,      \* the Url that Parse returned
  session   \* what the session was made with

vars == <<scheme, text, stage, code, url, session>>

NoUrl == [protocol |-> "unknown", host |-> <<>>, port |-> 0,
          path |-> <<>>, query |-> <<>>, fragment |-> <<>>]

NoSession == [host |-> <<>>, port |-> 0, target |-> <<>>, use_ssl |-> FALSE]

Init ==
  /\ scheme \in Schemes
  /\ text \in IF scheme = "empty" THEN {<<>>} ELSE Texts
  /\ stage = "given"
  /\ code = "none"
  /\ url = NoUrl
  /\ session = NoSession

-----------------------------------------------------------------------------
(***************************************************************************)
(* The regular expression.  Each group takes all it can; what stopped it   *)
(* either is skipped or begins the next group, so that nothing is taken back. *)
(***************************************************************************)
\* The longest beginning of t without a token of S, and what follows it.
Upto(t, S) ==
  LET Stops == {i \in 1..Len(t) : t[i] \in S /\ \A j \in 1..(i - 1) : t[j] \notin S}
  IN  IF Stops = {} THEN t ELSE SubSeq(t, 1, (CHOOSE i \in Stops : TRUE) - 1)

From(t, S) == SubSeq(t, Len(Upto(t, S)) + 1, Len(t))

\* t without a d at its beginning.
Skip(t, d) == IF t # <<>> /\ Head(t) = d THEN Tail(t) ELSE t

Group2 == Upto(text, {"/", "blank", ":"})                  \* the host
After2 == Skip(From(text, {"/", "blank", ":"}), ":")
Group3 == Upto(After2, {"/", "blank"})                     \* the port
After3 == From(After2, {"/", "blank"})
Group4Query == Upto(After3, {"blank", "#"})                        \* seeded fault
Group4 == Upto(After3, {"blank", "#", "?"})                \* the path
After4 == Skip(SubSeq(After3, Len(Group4) + 1, Len(After3)), "?")
Group5 == Upto(After4, {"blank", "#"})                     \* the query
After5 == Skip(From(After4, {"blank", "#"}), "#")
Group6 == Upto(After5, {"blank"})                          \* the fragment

Matches ==
  /\ scheme \in {"http", "https", "ftp"}
  /\ Group2 # <<>>
  /\ Group6 = After5

ReadingsOf(port) == {r[2] : r \in {p \in Readings : port # <<>> /\ p[1] = port[1]}}

Port ==
  IF Group3 # <<>> THEN CHOOSE n \in ReadingsOf(Group3) : TRUE
  ELSE IF scheme = "https" THEN 443 ELSE 80

-----------------------------------------------------------------------------
\* The copy constructor and the assignment, of u to v.
CopyOf(u) == [u EXCEPT !.fragment = <<>>]
Assigned(v, u) == [u EXCEPT !.fragment = v.fragment]

RefusedGoesOn(c) ==                                            \* seeded fault
  /\ stage' = "parsed"
  /\ code' = c
  /\ UNCHANGED url

Refused(c) ==
  /\ stage' = "refused"
  /\ code' = c
  /\ UNCHANGED url

PortInUnsignedRange(n) == n <= MaxPort                         \* seeded fault

PortBelowMax(n) == n \in 0..(MaxPort - 1)                      \* seeded fault

PortInRange(n) == n \in 0..MaxPort

\* Parse fills in a local Url, and returns an optional with a copy of it.
Parse ==
  /\ stage = "given"
  /\ \/ scheme = "empty" /\ Refused("EMPTY")
     \/ scheme # "empty" /\ ~Matches /\ Refused("NOT_SUPPORTED")
     \/ Matches /\ scheme = "ftp" /\ Refused("NOT_SUPPORTED")
     \/ /\ Matches /\ scheme # "ftp"
        /\ Group3 # <<>> /\ ReadingsOf(Group3) = {}
        /\ stage' = "thrown"
        /\ UNCHANGED <<code, url>>
     \/ /\ Matches /\ scheme # "ftp"
        /\ Group3 = <<>> \/ ReadingsOf(Group3) # {}
        /\ \/ ~PortInRange(Port) /\ Refused("NOT_SUPPORTED")
           \/ /\ PortInRange(Port)
              /\ url' = CopyOf([protocol |-> scheme, host |-> Group2, port |-> Port % (MaxPort + 1),
                                path |-> Group4, query |-> Group5, fragment |-> Group6])
              /\ stage' = "parsed"
              /\ UNCHANGED code
  /\ UNCHANGED <<scheme, text, session>>

\* The constructors of both clients copy the Url and make a session; it may
\* then be assigned to a client that has another one (here, of the same text).
SessionOf(u) ==
  [host |-> u.host, port |-> u.port, target |-> u.path, use_ssl |-> u.protocol = "https"]

MakeClient ==
  /\ stage = "parsed"
  /\ url' \in {CopyOf(url), Assigned(CopyOf(url), CopyOf(url))}
  /\ session' = SessionOf(url')
  /\ stage' = "made"
  /\ UNCHANGED <<scheme, text, code>>

Next == Parse \/ MakeClient

Spec == Init /\ [][Next]_vars

-----------------------------------------------------------------------------
(***************************************************************************)
(* What a url means: the fragment is what follows the first #, the query   *)
(* what follows the first ? before it, and so on.                          *)
(***************************************************************************)
After(t, d) == Skip(From(t, {d}), d)

Fragment  == After(text, "#")
Query     == After(Upto(text, {"#"}), "?")
Hierarchy == Upto(Upto(text, {"#"}), {"?"})
Path      == From(Hierarchy, {"/"})
Authority == Upto(Hierarchy, {"/"})
Host      == Upto(Authority, {":"})
PortText  == After(Authority, ":")

Decimals == {<<"80", 80>>, <<"443", 443>>, <<"65535", 65535>>}

\* Of a record with a port: it is an unsigned number of 16 bits.
HasPort(r) == r.port \in 0..MaxPort

TypeOK ==
  /\ scheme \in Schemes
  /\ text \in Seq(Delims \cup Words)
  /\ stage \in {"given", "refused", "thrown", "parsed", "made"}
  /\ code \in {"none", "EMPTY", "NOT_SUPPORTED"}
  /\ code # "none" <=> stage = "refused"
  /\ HasPort(url)
  /\ HasPort(session)

\* A session is made for the server and the path that the url names, and a query
\* does not become part of either, as long as the authority ends at a slash or
\* with the text, and the port is empty or a decimal number.
Conventional ==
  /\ Upto(text, {"/", "?", "#"}) = Upto(text, {"/"})
  /\ PortText = <<>> \/ (Len(PortText) = 1 /\ PortText[1] \in {r[1] : r \in Decimals})

ReachesWhatTheUrlNames ==
  stage = "made" /\ Conventional =>
    /\ session.host = Host
    /\ session.target = Path
    /\ session.use_ssl = (scheme = "https")
    /\ IF PortText = <<>> THEN session.port = IF scheme = "https" THEN 443 ELSE 80
                          ELSE <<PortText[1], session.port>> \in Decimals
    /\ url.query = Query

\* And such a url is not turned away: no http or https url with a host, without a
\* blank in it, is refused, and std::stoi does not throw for one.
AcceptsWhatItCanReach ==
  /\ scheme \in {"http", "https"}
  /\ Conventional
  /\ Host # <<>>
  /\ \A i \in 1..Len(text) : text[i] # "blank"
  => stage \notin {"refused", "thrown"}

\* A port number that does not fit is refused, never cut to 16 bits.
PortNeverWraps ==
  stage = "made" /\ Group3 # <<>> => session.port \in ReadingsOf(Group3)

\* include/milecsa_url.hpp, get_fragment: "Get fragment url".
FragmentIsKept == stage = "parsed" /\ Conventional => url.fragment = Fragment

=============================================================================
