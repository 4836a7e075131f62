--------------------------- MODULE MCTokenVerifier ---------------------------
(* Two requests: one carries tokens of several keys, the other tokens of    *)
(* one key with different claims.                                           *)
EXTENDS TokenVerifier, TLC

CONSTANTS r1, r2

MCSpellings == {<<"EMAIL", "email">>, <<"Sub", "sub">>, <<"SCOPE", "scope">>}
MCRequired  == {"ouId"}
MCIssuer    == Text(<<"idp">>)
MCAudience  == Text(<<"api">>)

Word(w)       == Text(<<w>>)
Padded(t)     == [t EXCEPT !.padded = TRUE]
Claim(n, v)   == [name |-> n, value |-> v]
Named(n, w)   == Claim(n, Str(Word(w)))
Two(w, v)     == Str(Text(<<w, v>>))
Strings(w, v) == Arr(<<Str(Padded(Word(w))), Str(Word(v))>>)

\* The claims every example carries, but those of the given names.
Usual ==
    <<Named("iss", "idp"), Claim("aud", Arr(<<Str(Word("web")), Str(Word("api"))>>)),
      Claim("exp", Num(2)), Named("sub", "ann"), Named("client_id", "app"),
      Claim("ouId", Str(Padded(Word("unit"))))>>
Without(names) == SelectSeq(Usual, LAMBDA c : c.name \notin names)
But(c)         == Append(Without({c.name}), c)

\* Accepted while they have not expired.
Good ==
    {Without({"sub", "aud"}) \o
        <<Claim("Sub", Str(Padded(Word("ann")))), Named("aud", "api"),
          Claim("EMAIL", Str(Padded(Word("mail")))), Claim("scope", Two("read", "write"))>>,
     Usual \o <<Claim("email", Str(Padded(Empty))), Claim("nbf", Num(3)), Claim("roles", Null),
                Claim("SCOPE", Arr(<<Str(Padded(Word("read"))), Null>>))>>,
     Usual \o <<Claim("email", Null), Claim("nic", Object), Claim("scope", Null),
                Claim("roles", Strings("clerk", "judge"))>>}

\* Refused when they are decoded, and when they are validated.
Malformed ==
    {Append(Usual, Named("Sub", "bob"))}
Invalid ==
    {Append(Usual, Claim("roles", Two("clerk", "judge")))}

Token(k, p) == [kid |-> k, genuine |-> TRUE, payload |-> p]
Lasting     == But(Claim("exp", Num(20)))
Forged      == [Token("k1", Lasting) EXCEPT !.genuine = FALSE]
MCTokensOf ==
    (r1 :> {Token("k1", Lasting), Token("k2", Lasting)}) @@
    (r2 :> {NoHeader, Token("ec", Lasting), Token("k2", Lasting), Forged}
           \cup {Token("k1", p) : p \in Good \cup Malformed \cup Invalid})

\* A key is added, the old one goes, and in the end there is none; or both at once.
MCFirstKeys == {"k1"}
MCKeysAfter == ({"k1"} :> {{"k1", "k2"}, {"k2", "ec"}}) @@ ({"k1", "k2"} :> {{"k2", "ec"}})
               @@ ({"k2", "ec"} :> {{}}) @@ ({} :> {})
=============================================================================
