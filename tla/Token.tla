-------------------------------- MODULE Token --------------------------------
(***************************************************************************)
(* What ResourceBase::is_authorized decides about the Authorization header: *)
(* jwt-cpp's decoding of a JWT and its verifier as the Application sets it   *)
(* up.  Characters, digests and JSON text are abstracted to what decides.     *)
(*                                                                          *)
(* A token is the sequence of its dot-separated segments.  A segment is       *)
(*   chars, fills : how many characters of the base64url alphabet it has, and  *)
(*                  how many "%3d" follow them                               *)
(*   symbols      : its characters are all of the alphabet                   *)
(*   json         : what it decodes to is a JSON object                       *)
(*   holds        : the algorithm of a header, the claims of a payload, and of *)
(*                  a signature the key that signed these two, or Forged       *)
(***************************************************************************)
EXTENDS Integers, Sequences

CONSTANTS PublishedKeys,   \* the issuer's keys in the order of /auth/public_keys
          Now              \* the time of the request

ASSUME KeysAreListed == PublishedKeys \in Seq({PublishedKeys[i] : i \in DOMAIN PublishedKeys})
ASSUME NowAssumption == Now \in Nat

Issuer == "dds-permissions-manager"
ApplicationId == "application"   \* DPM_APPLICATION_ID
Absent == "absent"               \* no such claim
NotText == "not a string"        \* a claim of another JSON type
NoDate == -1                     \* no such claim
NotADate == -2                   \* a claim that is not a number
Forged == "forged"

\* The dates of the claims of a payload: seconds, no such claim, or not a number.
Dated(c) == \A d \in {c.exp, c.iat, c.nbf} : d \in Nat \cup {NoDate, NotADate}

\* index: every character must be one of the alphabet.
InAlphabet(s) == s.symbols

\* count_padding: the fills at the end.
Fills(s) == s.fills

\* pad: fills up to a multiple of four, "%3d" already there counting as three.
Padded(s) == [s EXCEPT !.fills = @ + ((4 - ((s.chars + 3 * s.fills) % 4)) % 4)]

\* decode throws on more than two fills, a wrong size or a foreign character.
Decodable(s) ==
  /\ Fills(s) <= 2
  /\ (s.chars + Fills(s)) % 4 = 0
  /\ InAlphabet(s)

\* parse_claims throws on what is no JSON, as_object on what is no object.
ParsesClaims(s) == s.json

\* decoded_jwt: three segments that decode, header and claims JSON objects.
\* (A fourth segment would be part of the third, with a dot in it.)
Decodes(token) ==
  /\ Len(token) = 3
  /\ \A i \in 1..3 : Decodable(Padded(token[i]))
  /\ ParsesClaims(token[1]) /\ ParsesClaims(token[2])

\* allow_algorithm stores by algorithm name: of several RS256 keys, the last.
AllowedKeys == IF PublishedKeys = << >> THEN {} ELSE {PublishedKeys[Len(PublishedKeys)]}

\* rsa::verify with the key of an allowed algorithm
Signed(signature) == signature \in AllowedKeys

\* equals_claim, of iss and of sub: missing, of another type, or different.
WrongOwner(c) == c.iss # Issuer \/ c.sub # ApplicationId

\* exp, iat and nbf, each only if it is there.
WrongTime(c) ==
  \/ c.exp >= 0 /\ Now > c.exp
  \/ \E d \in {c.iat, c.nbf} : d >= 0 /\ Now < d

\* as_date throws on what is not a number.
ThrowsOnDate(c) == NotADate \in {c.exp, c.iat, c.nbf}

\* get_algorithm: get_claim throws on a claim that is not there, as_string on one
\* that is not text.
NamesAlgorithm(alg) == alg \notin {Absent, NotText}

\* Mutant of ClaimFaults: the subject is not asked for.
ClaimFaultsOfAnySubject(c) ==
  (IF c.iss # Issuer \/ WrongTime(c) THEN {"refused"} ELSE {})
  \cup (IF ThrowsOnDate(c) THEN {"threw"} ELSE {})

\* What the checks of the claims can answer beside success.  They run in the
\* order of an unordered_map, and the first that fails decides.
ClaimFaults(c) ==
  (IF WrongOwner(c) \/ WrongTime(c) THEN {"refused"} ELSE {})
  \cup (IF ThrowsOnDate(c) THEN {"threw"} ELSE {})

\* verifier::verify, of a decoded token.
Verify(alg, claims, signature) ==
  IF ~NamesAlgorithm(alg) THEN {"threw"}
  ELSE IF alg # "RS256" \/ ~Signed(signature) THEN {"refused"}
  ELSE IF ClaimFaults(claims) # {} THEN ClaimFaults(claims)
  ELSE {"granted"}

\* is_authorized: no scheme or another one than Bearer is refused; nothing
\* catches what decode and verify throw.
Authorization(auth) ==
  IF auth.scheme # "Bearer" THEN {"refused"}
  ELSE IF ~Decodes(auth.token) THEN {"threw"}
  ELSE Verify(auth.token[1].holds, auth.token[2].holds, auth.token[3].holds)

-----------------------------------------------------------------------------
\* What a client must hold to be let in, whatever the implementation: an
\* unaltered token that a published key signed for this application and that is valid
\* now.
Genuine(auth) ==
  /\ auth.scheme = "Bearer" /\ Len(auth.token) = 3
  /\ auth.token[3].holds \in {PublishedKeys[i] : i \in DOMAIN PublishedKeys}
  /\ auth.token[1].holds = "RS256"
  /\ LET c == auth.token[2].holds
     IN  /\ c.iss = Issuer /\ c.sub = ApplicationId
         /\ c.exp = NoDate \/ c.exp >= Now
         /\ \A d \in {c.iat, c.nbf} : d = NoDate \/ (d >= 0 /\ d <= Now)

=============================================================================
