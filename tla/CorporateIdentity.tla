-------------------------- MODULE CorporateIdentity --------------------------
(***************************************************************************)
(* The browser extension's corporate identity (browser-extension/          *)
(* identity.js): the admin's managed policy, OIDC sign-in with its awaits  *)
(* of the browser, the token endpoint, discovery, the published keys and   *)
(* the signature check, and sign-out, over chrome.storage.local.           *)
(*                                                                         *)
(* The extension's other files do not import this module (its README names *)
(* it): nothing puts this identity into a receipt yet.  The calls are made *)
(* here in any order, as the module's exports allow.                       *)
(*                                                                         *)
(* Random strings (state, nonce, PKCE verifier) are named after the sign-in*)
(* that drew them.  Of the claims only the subject is kept.  Nothing writes*)
(* the personal identity that getBoundIdentity also looks for.             *)
(***************************************************************************)
EXTENDS Integers, FiniteSets

CONSTANTS SignIns,      \* calls of signInWithCorporateIdentity
          Policies,     \* what admins push: [tenant, issuer]
          Issuers, Users,
          NoPolicy, NoIssuer, NoIdentity, NoToken, NoKey,
          Alias,        \* a name an issuer may go by that is not its address
          Ttl,          \* lifetime of an id_token
          Leeway,       \* 60 s: tolerated before an id_token's nbf
          MaxNow, MaxKeys   \* bounds: time, keys an issuer has had

IdentityAssumption ==
    /\ Policies \subseteq [tenant : STRING, issuer : Issuers \cup {NoIssuer}]
    /\ NoPolicy \notin Policies /\ NoIssuer \notin Issuers \cup {Alias}
    /\ Alias \notin Issuers
    /\ NoIdentity \notin [sub : Users, tenant : STRING, issuer : Issuers, at : Nat]
    /\ NoToken \notin [access : SignIns]
    /\ NoKey \notin Nat /\ Users # {}
    /\ Ttl \in Nat /\ Leeway \in Nat /\ MaxNow \in Nat /\ MaxKeys \in Nat

VARIABLES
    managed,    \* chrome.storage.managed: the policy the admin pushes
    cached,     \* pl.managed_policy
    corporate,  \* pl.identity.corporate
    token,      \* pl.identity.token
    step,       \* step[s]: the await sign-in s is at
    policy,     \* policy[s]: the policy s was given
    answer,     \* answer[s]: the token response of s
    keys,       \* keys[s]: the JWKS s fetched
    expected,   \* expected[s]: the issuer's name in the discovery document s fetched
    claimed,    \* claimed[s]: the identity s is storing
    published,  \* published[i]: the keys issuer i publishes
    time,
    consented,  \* history: sign-ins whose user authenticated
    issued      \* history: token responses the issuers gave

vars == <<managed, cached, corporate, token, step, policy, answer, keys, expected, claimed,
          published, time, consented, issued>>

pending == <<step, policy, answer, keys, expected, claimed>>
-----------------------------------------------------------------------------
Init ==
    /\ managed   = NoPolicy
    /\ cached    = NoPolicy
    /\ corporate = NoIdentity
    /\ token     = NoToken
    /\ step      = [s \in SignIns |-> "new"]
    /\ policy    = [s \in SignIns |-> NoPolicy]
    /\ answer    = [s \in SignIns |-> NoToken]
    /\ keys      = [s \in SignIns |-> {}]
    /\ expected  = [s \in SignIns |-> NoIssuer]
    /\ claimed   = [s \in SignIns |-> NoIdentity]
    /\ published = [i \in Issuers |-> {1}]
    /\ time      = 0
    /\ consented = {}
    /\ issued    = {}

Goes(s, to) == step' = [step EXCEPT ![s] = to]

(* The call of s returns or throws, and its locals are gone; the name it   *)
(* went by is kept of a call that returned.                                *)
Ends(s, as) ==
    /\ Goes(s, as)
    /\ answer'  = [answer EXCEPT ![s] = NoToken]
    /\ keys'    = [keys EXCEPT ![s] = {}]
    /\ claimed' = [claimed EXCEPT ![s] = NoIdentity]
    /\ expected' = IF as = "done" THEN expected ELSE [expected EXCEPT ![s] = NoIssuer]

(* The admin pushes a policy, or withdraws it.                             *)
Push ==
    /\ \E p \in Policies \cup {NoPolicy} : p # managed /\ managed' = p
    /\ UNCHANGED <<cached, corporate, token, pending, published, time, consented, issued>>

(* loadManagedPolicy before a sign-in: a policy is cached; that there is   *)
(* none any more is not.                                                   *)
LoadManagedPolicy(s) ==
    /\ step[s] = "new"
    /\ policy' = [policy EXCEPT ![s] = managed]
    /\ cached' = IF managed = NoPolicy THEN cached ELSE managed
    /\ Goes(s, IF managed = NoPolicy THEN "personal" ELSE "loaded")
    /\ UNCHANGED <<managed, corporate, token, answer, keys, expected, claimed, published, time,
                   consented, issued>>

(* The sign-in begins: the browser's window opens on the issuer's page.    *)
Authorize(s) ==
    /\ step[s] = "loaded"
    /\ Goes(s, IF policy[s].issuer = NoIssuer THEN "failed" ELSE "authorize")
    /\ UNCHANGED <<managed, cached, corporate, token, policy, answer, keys, expected, claimed,
                   published, time, consented, issued>>

(* The user authenticated, and the redirect carries this sign-in's state   *)
(* and a code.                                                             *)
Redirected(s) ==
    /\ step[s] = "authorize"
    /\ consented' = consented \cup {s}
    /\ Goes(s, "redeem")
    /\ UNCHANGED <<managed, cached, corporate, token, policy, answer, keys, expected, claimed,
                   published, time, issued>>

(* The newest key an issuer publishes is the one it signs with.            *)
Newest(i) == CHOOSE k \in published[i] : \A j \in published[i] : j <= k

(* A token response to s: in order, or not for this client, under the      *)
(* issuer's other name, or not valid yet.                                  *)
Responses(s) ==
    LET Response(sub, iss, aud, nbf) ==
            [nonce |-> s, sub |-> sub, iss |-> iss, aud |-> aud, exp |-> time + Ttl,
             nbf |-> nbf, key |-> Newest(policy[s].issuer),
             access |-> s, by |-> policy[s].issuer]
        anyone == CHOOSE u \in Users : TRUE
    IN  {Response(u, policy[s].issuer, "us", time) : u \in Users}
        \cup {Response(anyone, policy[s].issuer, "other", time),
              Response(anyone, policy[s].issuer, "us", time + Leeway + 1),
              Response(anyone, Alias, "us", time)}

(* The token endpoint answers the code, or repeats an answer of before.    *)
TokenAnswers(s) ==
    /\ step[s] = "redeem"
    /\ \E a \in Responses(s) \cup {x \in issued : x.by = policy[s].issuer} :
          /\ answer' = [answer EXCEPT ![s] = a]
          /\ issued' = issued \cup {a}
    /\ Goes(s, "jwks")
    /\ UNCHANGED <<managed, cached, corporate, token, policy, keys, expected, claimed, published,
                   time, consented>>

(* verifyIdToken: discovery, whose document may name the issuer by its     *)
(* address, by another name or not at all; then the keys of this moment.   *)
FetchKeys(s) ==
    /\ step[s] = "jwks"
    /\ \E named \in {policy[s].issuer, Alias, NoIssuer} :
          expected' = [expected EXCEPT ![s] =
                          IF named = NoIssuer THEN policy[s].issuer ELSE named]
    /\ keys' = [keys EXCEPT ![s] = published[policy[s].issuer]]
    /\ Goes(s, "verify")
    /\ UNCHANGED <<managed, cached, corporate, token, policy, answer, claimed, published,
                   time, consented, issued>>

(* The key of the token's kid, or the only one there is.                   *)
VerifyKey(ks, kid) ==
    IF kid \in ks THEN kid
    ELSE IF Cardinality(ks) = 1 THEN CHOOSE k \in ks : TRUE ELSE NoKey

(* Mutant: the nonce is not compared.                                      *)
AcceptsAnyNonce(s) ==
    LET t == answer[s]
    IN  /\ VerifyKey(keys[s], t.key) = t.key
        /\ t.iss = expected[s] /\ t.aud = "us"
        /\ time < t.exp /\ t.nbf <= time + Leeway

(* Signature, iss, aud, exp, nbf and nonce of the id_token.                *)
Accepts(s) ==
    LET t == answer[s]
    IN  /\ VerifyKey(keys[s], t.key) = t.key
        /\ t.iss = expected[s] /\ t.aud = "us"
        /\ time < t.exp /\ t.nbf <= time + Leeway
        /\ t.nonce = s

(* The id_token is verified, and the identity made of it goes to storage.  *)
VerifyIdToken(s) ==
    /\ step[s] = "verify"
    /\ IF Accepts(s)
       THEN /\ claimed' = [claimed EXCEPT ![s] =
                              [sub |-> answer[s].sub, tenant |-> policy[s].tenant,
                               issuer |-> policy[s].issuer, at |-> time]]
            /\ Goes(s, "store")
            /\ UNCHANGED <<answer, keys, expected>>
       ELSE Ends(s, "failed")
    /\ UNCHANGED <<managed, cached, corporate, token, policy, published, time,
                   consented, issued>>

(* Mutant: an access token already stored is kept.                         *)
StoreIdentityOnly(s) ==
    /\ step[s] = "store"
    /\ corporate' = claimed[s]
    /\ token' = IF token = NoToken THEN [access |-> answer[s].access] ELSE token
    /\ Ends(s, "done")
    /\ UNCHANGED <<managed, cached, policy, published, time, consented, issued>>

(* chrome.storage.local.set: identity and token in one call.               *)
StoreIdentity(s) ==
    /\ step[s] = "store"
    /\ corporate' = claimed[s]
    /\ token' = [access |-> answer[s].access]
    /\ Ends(s, "done")
    /\ UNCHANGED <<managed, cached, policy, published, time, consented, issued>>

(* Any await may fail, and so does a redirect with another state or without*)
(* a code, or a response without an id_token; nothing is stored then.      *)
SignInFails(s) ==
    /\ step[s] \in {"authorize", "redeem", "jwks", "verify", "store"}
    /\ Ends(s, "failed")
    /\ UNCHANGED <<managed, cached, corporate, token, policy, published, time,
                   consented, issued>>

(* signOut removes identity and token, not the policy.                     *)
SignOut ==
    /\ corporate # NoIdentity
    /\ corporate' = NoIdentity
    /\ token'     = NoToken
    /\ UNCHANGED <<managed, cached, pending, published, time, consented, issued>>

(* An issuer takes a new key into use; the old one stays published or not. *)
RotateKey(i) ==
    /\ Newest(i) < MaxKeys
    /\ \E old \in {{}, published[i]} :
          published' = [published EXCEPT ![i] = old \cup {Newest(i) + 1}]
    /\ UNCHANGED <<managed, cached, corporate, token, pending, time, consented, issued>>

Tick ==
    /\ time < MaxNow /\ time' = time + 1
    /\ UNCHANGED <<managed, cached, corporate, token, pending, published, consented, issued>>

Next ==
    \/ \E s \in SignIns :
          \/ LoadManagedPolicy(s) \/ Authorize(s) \/ Redirected(s) \/ TokenAnswers(s)
          \/ FetchKeys(s) \/ VerifyIdToken(s) \/ StoreIdentity(s) \/ SignInFails(s)
    \/ \E i \in Issuers : RotateKey(i)
    \/ Push \/ SignOut \/ Tick

Spec == Init /\ [][Next]_vars
-----------------------------------------------------------------------------
(* getBoundIdentity: whether the policy requires a corporate identity or   *)
(* not, there is no other.                                                 *)
BoundIdentity == corporate

(* contextFromIdentity: what the event of a receipt is to carry of it.     *)
Context ==
    IF BoundIdentity = NoIdentity THEN [environment |-> "personal"]
    ELSE [environment |-> "production", user |-> BoundIdentity.sub, since |-> BoundIdentity.at]

(* The context the module hands out for receipts is of an identity that an *)
(* issuer vouched for in a sign-in of its own: the user authenticated in   *)
(* it, the policy's issuer answered it with this subject, for this client  *)
(* and for its time, under the name its discovery document gave to that    *)
(* sign-in, the tenant is the one of the policy it was given, and the      *)
(* access token stored beside it is of the same sign-in - however sign-ins,*)
(* sign-outs, policies and keys overlap, and although a sign-in under way  *)
(* outlives a sign-out.                                                    *)
IdentityIsVouched ==
    /\ Context.environment = "production" <=> token # NoToken
    /\ Context.environment = "production" =>
          \E s \in consented, a \in issued :
             /\ policy[s].tenant = corporate.tenant /\ policy[s].issuer = corporate.issuer
             /\ token.access = s
             /\ a.nonce = s /\ a.access = s
             /\ a.sub = Context.user /\ a.aud = "us"
             /\ a.iss = expected[s] /\ expected[s] \in {corporate.issuer, Alias}
             /\ a.by = corporate.issuer
             /\ Context.since < a.exp /\ a.nbf <= Context.since + Leeway
=============================================================================
