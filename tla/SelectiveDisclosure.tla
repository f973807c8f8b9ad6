------------------------ MODULE SelectiveDisclosure ------------------------
(***************************************************************************)
(* SD-JWT credentials (pkg/vc/sdjwt.go, watermark.go, api/sdjwt.go, and    *)
(* the presentation handler of api/zkp.go).  The issuer signs the digests  *)
(* of salted claims; the holder presents some of the claims, with a        *)
(* key-binding JWT or a watermark; a verifier checks the presentation.  A  *)
(* presentation string is the sequence of its parts between "~"; a string  *)
(* that ends with "~" ends with the empty part.  Salts are random, so that *)
(* two disclosures are never equal, and hashes do not collide.             *)
(***************************************************************************)
EXTENDS Integers, Sequences, SequencesExt, FiniteSets

CONSTANTS
    Credential,  \* SD-JWTs that are issued
    Claim,       \* claim names
    Value,       \* claim values
    Nonce, Audience,
    None

VARIABLES
    tokens,       \* the holder's SDJWTToken of each credential, or None
    expiredJwt,   \* credentials whose exp has passed
    presentation, \* the string presented last, as its parts, or None
    intent,       \* what the holder meant by it
    result        \* the verifier's SDJWTVerifyResult or error, or None

vars == <<tokens, expiredJwt, presentation, intent, result>>

-----------------------------------------------------------------------------
(* Parts of the string *)

Disclosure == [salt : Credential \cup {"watermark"}, key : Claim \cup {"_wm"},
               value : Value \cup {"pid"}]

NewDisclosure(c, k, v) == [salt |-> c, key |-> k, value |-> v]

Encode(d) == [part |-> "disclosure", enc |-> d]
ParseDisclosure(part) == part.enc

Digest(d) == [sha256 |-> d]
Empty == [part |-> "empty"]
IsKB(p) == p.part = "kb"

(* signSDJWT and verifySDJWTSig: a signature fits the key that made it. *)
signSDJWT(claims, key, typ) == [part |-> typ, claims |-> claims, signedBy |-> key]
verifySDJWTSig(jwt, pub) == jwt.signedBy = pub

(* parseSDJWTPayload, extractHolderKey: cnf.jwk, or nil. *)
parseSDJWTPayload(jwt) == jwt.claims
extractHolderKey(claims) == claims.cnf

(* SDJWTToken.serializeWith *)
serializeWith(jwt, discs) ==
    <<jwt>> \o [i \in 1 .. Len(discs) |-> Encode(discs[i])] \o <<Empty>>

(* strings.TrimSuffix(base, "~") *)
TrimTilde(string) == IF Last(string) = Empty THEN Front(string) ELSE string

(* base + s, where base ends with "~" *)
Concat(base, s) == Front(base) \o s

ParseSDJWT(string) ==
    LET parts == SelectSeq(Tail(string), LAMBDA p : p # Empty)
        kbs == SelectSeq(parts, IsKB)
        discs == SelectSeq(parts, LAMBDA p : ~IsKB(p))
    IN  [jwt |-> Head(string), discs |-> discs,
         kb |-> IF kbs = <<>> THEN None ELSE Last(kbs)]

(* sdHashOf: with the trailing "~" *)
sdHashOf(parsed) == Digest(<<parsed.jwt>> \o parsed.discs \o <<Empty>>)

-----------------------------------------------------------------------------

Init ==
    /\ tokens = [c \in Credential |-> None]
    /\ expiredJwt = {}
    /\ presentation = None /\ intent = None /\ result = None

(* IssueSDJWT: one disclosure per selective claim; the holder's key is an *)
(* always-visible cnf claim, or there is none.                            *)
IssueSDJWT(c, claims, cnf) ==
    LET discs == SetToSeq({NewDisclosure(c, k, claims[k]) : k \in DOMAIN claims})
        payload == [id |-> c, sd |-> {Digest(d) : d \in ToSet(discs)}, cnf |-> cnf]
    IN  [jwt |-> signSDJWT(payload, "issuer", "jwt"), disclosures |-> discs]

(* handleIssueSDJWT: the holder keeps what the response holds. *)
handleIssueSDJWT(c, claims, cnf) ==
    /\ tokens[c] = None
    /\ tokens' = [tokens EXCEPT ![c] = IssueSDJWT(c, claims, cnf)]
    /\ UNCHANGED <<expiredJwt, presentation, intent, result>>

Expire(c) ==
    /\ tokens[c] # None
    /\ expiredJwt' = expiredJwt \cup {c}
    /\ UNCHANGED <<tokens, presentation, intent, result>>

(* SDJWTToken.Present and Serialize, as strings *)
Present(token, reveal) ==
    serializeWith(token.jwt, SelectSeq(token.disclosures, LAMBDA d : d.key \in reveal))

Serialize(token) == serializeWith(token.jwt, token.disclosures)

Hand(string, meant) ==
    /\ presentation' = string
    /\ intent' = meant
    /\ result' = None
    /\ UNCHANGED <<tokens, expiredJwt>>

PresentPlain(c, reveal) ==
    /\ tokens[c] # None
    /\ Hand(Present(tokens[c], reveal), [kind |-> "plain", cred |-> c, reveal |-> reveal])

(* PresentWithKeyBinding: the hash is taken without the trailing "~". *)
PresentWithKeyBinding(c, reveal, nonce, aud) ==
    LET base == Present(tokens[c], reveal)
        kb == signSDJWT([nonce |-> nonce, aud |-> aud, sd_hash |-> Digest(TrimTilde(base))],
                        "holder", "kb")
    IN  /\ tokens[c] # None
        /\ Hand(Concat(base, <<kb>>),
                [kind |-> "bound", cred |-> c, reveal |-> reveal, nonce |-> nonce, aud |-> aud])

(* PresentWithWatermark, as a string; PresentWithWatermarkAndKeyBinding is *)
(* the same: appendKBJWT appends nothing.                                  *)
PresentWithWatermark(token, reveal) ==
    Concat(Present(token, reveal),
           <<Encode(NewDisclosure("watermark", "_wm", "pid")), Empty>>)

(* handleSDJWTPresentWithWatermark: the server parses the holder's string *)
(* and presents the token it finds there.                                 *)
handleSDJWTPresentWithWatermark(c, reveal) ==
    LET parsed == ParseSDJWT(Serialize(tokens[c]))
        token == [jwt |-> parsed.jwt,
                  disclosures |-> [i \in 1 .. Len(parsed.discs) |->
                                     ParseDisclosure(parsed.discs[i])]]
    IN  /\ tokens[c] # None
        /\ Hand(PresentWithWatermark(token, reveal),
                [kind |-> "marked", cred |-> c, reveal |-> reveal])

(* A holder of two credentials mixes them up: the JWT of one with         *)
(* disclosures of the other.                                              *)
PresentMixed(c, d, reveal) ==
    /\ c # d /\ tokens[c] # None /\ tokens[d] # None
    /\ Hand(<<tokens[c].jwt>> \o Tail(Present(tokens[d], reveal)),
            [kind |-> "mixed", cred |-> c,
             reveal |-> reveal \cap {e.key : e \in ToSet(tokens[d].disclosures)}])

-----------------------------------------------------------------------------
(* The verifier *)

(* verifyKBJWT with a holder's key: the checks it makes *)
verifyKBJWT(parsed, holderPub, nonce, aud) ==
    LET kb == parseSDJWTPayload(parsed.kb) IN
    /\ nonce # None => kb.nonce = nonce
    /\ aud # None => kb.aud = aud
    /\ kb.sd_hash = sdHashOf(parsed)
    /\ verifySDJWTSig(parsed.kb, holderPub)

\* Fault variant: a presented disclosure is not looked up in _sd.
DisclosedUnchecked(parsed) == TRUE

(* Each presented disclosure has its digest in the issuer's _sd. *)
Disclosed(parsed) ==
    \A i \in 1 .. Len(parsed.discs) :
        Digest(ParseDisclosure(parsed.discs[i])) \in parseSDJWTPayload(parsed.jwt).sd

(* SDJWTVerifyResult: the claims disclosed. *)
DisclosedClaims(parsed) ==
    {[key |-> d.key, value |-> d.value] :
        d \in {ParseDisclosure(parsed.discs[i]) : i \in 1 .. Len(parsed.discs)}}

(* SDJWTVerifier.Verify.  The issuer's DID resolves to its key; see       *)
(* Verification for documents that change.                                *)
Verify(string, nonce, aud) ==
    LET parsed == ParseSDJWT(string)
        claims == parseSDJWTPayload(parsed.jwt)
        holderPub == extractHolderKey(claims)
        ok == /\ verifySDJWTSig(parsed.jwt, "issuer")
              /\ claims.id \notin expiredJwt
              /\ Disclosed(parsed)
              /\ IF parsed.kb # None
                 THEN holderPub # None /\ verifyKBJWT(parsed, holderPub, nonce, aud)
                 ELSE nonce = None /\ aud = None
    IN  IF ok THEN [valid |-> TRUE, claims |-> DisclosedClaims(parsed)]
        ELSE [valid |-> FALSE, nonce |-> nonce, aud |-> aud,
              expired |-> claims.id \in expiredJwt]

handleVerifySDJWT(nonce, aud) ==
    /\ presentation # None
    /\ result' = Verify(presentation, nonce, aud)
    /\ UNCHANGED <<tokens, expiredJwt, presentation, intent>>

Next ==
    \/ \E c \in Credential :
         \/ \E S \in SUBSET Claim : \E claims \in [S -> Value] :
              \E cnf \in {"holder", None} : handleIssueSDJWT(c, claims, cnf)
         \/ Expire(c)
         \/ \E reveal \in SUBSET Claim :
              \/ PresentPlain(c, reveal)
              \/ \E nonce \in Nonce, aud \in Audience :
                   PresentWithKeyBinding(c, reveal, nonce, aud)
              \/ handleSDJWTPresentWithWatermark(c, reveal)
              \/ \E d \in Credential : PresentMixed(c, d, reveal)
    \/ \E nonce \in Nonce \cup {None}, aud \in Audience \cup {None} : handleVerifySDJWT(nonce, aud)

Spec == Init /\ [][Next]_vars

-----------------------------------------------------------------------------

\* Every variable has its type.
TypeOK ==
    /\ \A c \in Credential : tokens[c] # None =>
         /\ ToSet(tokens[c].disclosures) \subseteq Disclosure
         /\ tokens[c].jwt.claims.id = c
    /\ expiredJwt \subseteq Credential
    /\ presentation # None <=> intent # None

\* "DisclosedClaims contains only the claims the holder chose to reveal"
\* (sdjwt.go:297): a verifier that accepts a presentation learns exactly the
\* claims that the holder chose, with the values that the issuer signed into
\* that credential (sdjwt.go:366-381), however the holder put disclosures of
\* their credentials together.
RevealedExactly ==
    result # None /\ result.valid =>
        result.claims = {[key |-> d.key, value |-> d.value] :
                           d \in {e \in ToSet(tokens[intent.cred].disclosures) :
                                    e.key \in intent.reveal}}

\* sdjwt.go:534 says of sdHashOf "This is the value that the holder embeds
\* in the sd_hash claim of the KB-JWT": a key-bound presentation of a
\* credential with the holder's key, checked before it expires against the
\* nonce and audience that it was made for, is accepted.
KeyBoundAccepted ==
    (result # None /\ intent.kind = "bound") =>
        ~(/\ ~result.valid /\ ~result.expired
          /\ result.nonce = intent.nonce /\ result.aud = intent.aud
          /\ tokens[intent.cred].jwt.claims.cnf = "holder")

=============================================================================
