----------------------------- MODULE TokenClaims -----------------------------
(***************************************************************************)
(* What a token says of its bearer (internal/authn): the claims are read   *)
(* twice, once into typed fields, which are validated, and once into the   *)
(* map that every accessor of the Principal reads.                         *)
(*                                                                         *)
(* A claim value is a JSON value, reduced to what the code tells apart.  A *)
(* string is a text: its words, and whether blanks surround it.            *)
(***************************************************************************)
EXTENDS Naturals, Sequences

CONSTANTS
    Spellings,  \* the pairs of a name and a standard claim name that differ in case only
    Required,   \* the identity claims the configuration requires
    Issuer,     \* the expected issuer, a text
    Audience,   \* the expected audience, a text
    Leeway,     \* the clock skew that is forgiven
    Absent      \* no value, and Go's nil

----------------------------------------------------------------------------
(* Texts and JSON values.                                                  *)

Text(words)  == [words |-> words, padded |-> FALSE]
Empty        == Text(<<>>)
TrimSpace(t) == [t EXCEPT !.padded = FALSE]
Fields(t)    == [i \in DOMAIN t.words |-> Text(<<t.words[i]>>)]

Str(t)   == [kind |-> "string", text |-> t]
Num(n)   == [kind |-> "number", number |-> n]
Arr(vs)  == [kind |-> "array", items |-> vs]
Object   == [kind |-> "object"]
Null     == [kind |-> "null"]

IsString(v)  == v # Absent /\ v.kind = "string"
IsArray(v)   == v # Absent /\ v.kind = "array"
IsNumber(v)  == v # Absent /\ v.kind = "number"
NoValue(v)   == v = Absent \/ v.kind = "null"
IsStrings(v) == IsArray(v) /\ \A i \in DOMAIN v.items : IsString(v.items[i])

\* The values a claim may have.  What an array holds other than strings and
\* nulls is not told apart, so arrays need not nest.
Texts      == [words : Seq(STRING), padded : BOOLEAN]
Scalars    == [kind : {"string"}, text : Texts] \cup [kind : {"number"}, number : Nat]
              \cup {Object, Null}
JSONValues == Scalars \cup [kind : {"array"}, items : Seq(Scalars)]
Payloads   == Seq([name : STRING, value : JSONValues])

\* What encoding/json stores in a string field: null and absence leave "".
TextOf(v)   == IF IsString(v) THEN v.text ELSE Empty
TextsOf(v)  == [i \in DOMAIN v.items |-> TextOf(v.items[i])]

----------------------------------------------------------------------------
(* Decoding.  A payload is the sequence of the object's members.           *)

StandardClaimNames == {"sub", "client_id", "scope", "roles", "email", "ouId", "ouHandle",
                       "iss", "aud", "exp", "nbf", "iat", "jti"}

\* A standard name differs from every other by more than its capitals, so no
\* name is a spelling of two of them.
ASSUME TokenClaimsAssumption ==
    /\ \A s \in Spellings : s[1] \notin StandardClaimNames
    /\ \A s, t \in Spellings : s[1] = t[1] => s[2] = t[2]
    /\ Absent \notin JSONValues

EqualFold(name, canonical) == name = canonical \/ <<name, canonical>> \in Spellings

\* Claims are looked up as they are spelled.
AsSpelled(name) == name

\* Two members that name one standard claim, or the same claim, are refused.
CanonicalClaimName(name) ==
    IF \E c \in StandardClaimNames : EqualFold(name, c)
    THEN CHOOSE c \in StandardClaimNames : EqualFold(name, c)
    ELSE name

Duplicated(p) ==
    \E i, j \in DOMAIN p : i # j /\ CanonicalClaimName(p[i].name) = CanonicalClaimName(p[j].name)

PayloadMap(p) ==
    [name \in {CanonicalClaimName(p[i].name) : i \in DOMAIN p} |->
        p[CHOOSE i \in DOMAIN p : CanonicalClaimName(p[i].name) = name].value]

\* encoding/json binds a struct's field to the last member whose name fits,
\* whatever its capitals.
Bound(p, claim) ==
    LET fits == {i \in DOMAIN p : EqualFold(p[i].name, claim)}
    IN  IF fits = {} THEN Absent
        ELSE p[CHOOSE i \in fits : \A j \in fits : j <= i].value

StringFields == {"sub", "client_id", "email", "ouId", "ouHandle", "iss", "jti"}
NumberFields == {"exp", "nbf", "iat"}

ScopeDecodes(v) ==
    \/ NoValue(v)
    \/ IsString(v)
    \/ /\ IsArray(v)
       /\ \A i \in DOMAIN v.items : IsString(v.items[i]) \/ NoValue(v.items[i])

\* An absent scope claim leaves the field nil, null makes it empty.
DecodedScopes(v) ==
    IF v = Absent THEN Absent
    ELSE IF IsArray(v) THEN TextsOf(v) ELSE Fields(TextOf(v))

\* Where the JWT library keeps the registered claims.
AudienceDecodes(v) == NoValue(v) \/ IsString(v) \/ IsStrings(v)
DecodedAudience(v) == IF IsArray(v) THEN TextsOf(v) ELSE IF IsString(v) THEN <<v.text>> ELSE <<>>

Decodes(p) ==
    /\ ~Duplicated(p)
    /\ \A c \in StringFields : NoValue(Bound(p, c)) \/ IsString(Bound(p, c))
    /\ \A c \in NumberFields : NoValue(Bound(p, c)) \/ IsNumber(Bound(p, c))
    /\ ScopeDecodes(Bound(p, "scope"))
    /\ AudienceDecodes(Bound(p, "aud"))

Typed(p) ==
    [sub      |-> TextOf(Bound(p, "sub")),
     clientID |-> TextOf(Bound(p, "client_id")),
     email    |-> TextOf(Bound(p, "email")),
     ouID     |-> TextOf(Bound(p, "ouId")),
     ouHandle |-> TextOf(Bound(p, "ouHandle")),
     roles    |-> Bound(p, "roles"),
     scopes   |-> DecodedScopes(Bound(p, "scope")),
     iss      |-> TextOf(Bound(p, "iss")),
     aud      |-> DecodedAudience(Bound(p, "aud")),
     exp      |-> Bound(p, "exp"),
     nbf      |-> Bound(p, "nbf")]

----------------------------------------------------------------------------
(* Validation, of the typed fields, at a time.                             *)

\* The library's validator, with issuer, audience and leeway set.
RegisteredClaimsHold(t, now) ==
    /\ IsNumber(t.exp) => now < t.exp.number + Leeway
    /\ IsNumber(t.nbf) => t.nbf.number <= now + Leeway
    /\ t.iss = Issuer
    /\ \E i \in DOMAIN t.aud : t.aud[i] = Audience

RequiredClaimsHold(t) ==
    /\ "email" \in Required => TrimSpace(t.email) # Empty
    /\ "ouId" \in Required => TrimSpace(t.ouID) # Empty
    /\ "ouHandle" \in Required => TrimSpace(t.ouHandle) # Empty

\* Roles are an array of strings, null or absent; free text is never split.
RolesParse(v) == NoValue(v) \/ IsStrings(v)

ParseRolesClaim(v) ==
    IF NoValue(v) THEN Absent ELSE [i \in DOMAIN v.items |-> TrimSpace(v.items[i].text)]

Validated(t, now) ==
    /\ RegisteredClaimsHold(t, now)
    /\ IsNumber(t.exp)
    /\ t.sub # Empty
    /\ t.clientID # Empty
    /\ RequiredClaimsHold(t)
    /\ RolesParse(t.roles)

----------------------------------------------------------------------------
(* The claims a Principal keeps, and its views of them.                    *)

NormalizeClaimValue(v) ==
    IF IsString(v) THEN Str(TrimSpace(v.text))
    ELSE IF IsStrings(v)
    THEN Arr([i \in DOMAIN v.items |-> Str(TrimSpace(v.items[i].text))])
    ELSE v

ExactClaims == {"sub", "client_id", "iss", "aud", "exp", "nbf", "iat", "jti"}

ValidatedClaims(payload, t) ==
    [name \in DOMAIN payload |->
        IF name \in ExactClaims THEN payload[name]
        ELSE IF name # "scope" THEN NormalizeClaimValue(payload[name])
        ELSE IF IsArray(payload[name]) THEN Arr([i \in DOMAIN t.scopes |-> Str(t.scopes[i])])
        ELSE payload[name]]

Lookup(claims, name) == IF name \in DOMAIN claims THEN claims[name] ELSE Absent

ClaimString(claims, name) == TextOf(Lookup(claims, name))

ClaimStrings(claims, name) ==
    LET v == Lookup(claims, name)
    IN  IF name = "scope" /\ IsString(v) THEN Fields(v.text)
        ELSE IF name = "scope" /\ v = Null THEN <<>>
        ELSE IF IsStrings(v) THEN TextsOf(v) ELSE Absent

\* What the accessors of a Principal return.
Principal(claims) ==
    [sub      |-> ClaimString(claims, "sub"),
     clientID |-> ClaimString(claims, "client_id"),
     email    |-> ClaimString(claims, "email"),
     ouID     |-> ClaimString(claims, "ouId"),
     ouHandle |-> ClaimString(claims, "ouHandle"),
     roles    |-> ClaimStrings(claims, "roles"),
     scopes   |-> ClaimStrings(claims, "scope")]

\* The same accessors of an authentication context, which may be absent.
ContextClaims(ctx) == IF ctx = Absent THEN [name \in {} |-> Null] ELSE ctx.claims
AuthContext(ctx)   == Principal(ContextClaims(ctx))

----------------------------------------------------------------------------
(* Who the three services take the bearer for.                             *)

\* The orchestration engine's consumer, or Absent.
ConsumerFromContext(ctx) ==
    IF ctx = Absent THEN Absent
    ELSE [applicationID |-> AuthContext(ctx).clientID, subscriber |-> AuthContext(ctx).sub]

\* The owner the consent portal acts for, from the claim it is configured
\* with; without one the request is refused.
OwnerSubject(ctx, claim) == ClaimString(ContextClaims(ctx), claim)

\* Of the portal backend's caller: does the token grant the scope?
HasScope(ctx, scope) ==
    LET scopes == AuthContext(ctx).scopes
    IN  scopes # Absent /\ \E i \in DOMAIN scopes : scopes[i] = scope
=============================================================================
