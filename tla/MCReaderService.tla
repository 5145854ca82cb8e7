--------------------------- MODULE MCReaderService ---------------------------
(* TLC instance of the Reader's HTTP API.  The issuer publishes two keys; the *)
(* headers clients send are one that is right and ones that are wrong in one   *)
(* or two ways.                                                              *)
EXTENDS ReaderService

MCKeys == 1..3
MCArgs == {-1, 1}
MCPublishedKeys == <<"k1", "k2">>

Segment(holds) == [chars |-> 7, fills |-> 0, symbols |-> TRUE, json |-> TRUE, holds |-> holds]

Claims == [iss |-> Issuer, sub |-> ApplicationId, exp |-> Now, iat |-> NoDate, nbf |-> NoDate]

Right == <<Segment("RS256"), Segment(Claims), Segment("k2")>>

WrongClaims ==
  {[Claims EXCEPT !.iss = Absent], [Claims EXCEPT !.sub = "another"],
   [Claims EXCEPT !.exp = Now - 1], [Claims EXCEPT !.nbf = Now + 1],
   [Claims EXCEPT !.iat = NotADate, !.sub = NotText]}

\* 5 characters need three fills; 6 with one "%3d" count as 9 and get three more.
WrongTexts ==
  {[Segment("RS256") EXCEPT !.chars = 5], [Segment("RS256") EXCEPT !.chars = 6, !.fills = 1],
   [Segment("RS256") EXCEPT !.symbols = FALSE], [Segment("RS256") EXCEPT !.json = FALSE]}

Tokens ==
  {Right, SubSeq(Right, 1, 2)}
  \cup {[Right EXCEPT ![2] = Segment(c)] : c \in WrongClaims}
  \cup {[Right EXCEPT ![1] = s] : s \in WrongTexts}
  \cup {[Right EXCEPT ![1].holds = a] : a \in {"HS256", Absent}}
  \cup {[Right EXCEPT ![3].holds = k] : k \in {"k1", Forged}}
  \* text that is already padded
  \cup {[Right EXCEPT ![3].chars = 6, ![3].fills = 2]}

MCAuthorizations == [scheme : {"Bearer"}, token : Tokens] \cup {[scheme |-> "Basic", token |-> Right]}

=============================================================================
