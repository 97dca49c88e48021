------------------------------ MODULE ClerkClaims ------------------------------
(***************************************************************************)
(* From a verified Clerk token to what a route lets its bearer do          *)
(* (src/backend-rs/src/auth/claims.rs and the extractors of auth.rs).      *)
(*                                                                         *)
(* Clerk writes a membership in one of three layouts: a list under         *)
(* org_permissions, the same list under permissions, or the compact V2     *)
(* form, where "fea" lists features, "per" permission names and "fpm" one  *)
(* bit mask per feature.  Positions carry the meaning, empty names         *)
(* included, so the decoder must neither trim nor drop an entry.           *)
(***************************************************************************)
EXTENDS Integers, Sequences, FiniteSetsExt

CONSTANTS Features,      \* what a token's "fea" may list, in order
          Permissions    \* what "o.per" may list, in order; "" is an empty entry

ASSUME ClaimsAssumption ==
  /\ \A f \in Features : f \in Seq(STRING)
  /\ \A p \in Permissions : p \in Seq(STRING)

VARIABLES membership,  \* what Clerk knows of the signed-in person
          claims,      \* the token's claims
          pastDue,     \* the organization's payment_past_due setting
          verdict      \* what each gate answered

claimVars == <<membership, claims, pastDue, verdict>>

Gates == {"view", "admin", "billing"}
Roles == {"org:admin", "admin", "org:member", "member"}
Statuses == {"unasked", "ok", "400", "401", "402", "403", "503"}
Grant(f, p) == <<"org", f, p>>
ManageCameras == Grant("cameras", "manage_cameras")
NoClaim == "absent"

Bit(mask, j) == (mask \div 2^j) % 2 = 1

\* Clerk's encoder (external): a layout carries the grants of the membership.
MaskOf(f, per, grants) ==
  MapThenSumSet(LAMBDA j : IF Grant(f, per[j]) \in grants THEN 2^(j - 1) ELSE 0,
                DOMAIN per)
Layouts == {"v1", "alias", "v2"}
Encoded(m, layout, fea, per) ==
  [sub |-> m.user, org_id |-> IF layout = "v2" THEN "" ELSE m.org,
   role |-> m.role,
   org_permissions |-> IF layout = "v1" THEN m.grants ELSE {},
   permissions |-> IF layout = "alias" THEN m.grants ELSE {},
   o |-> IF layout = "v2"
            THEN [id |-> m.org, fea |-> fea, per |-> per,
                  fpm |-> [i \in 1 .. Len(fea) |-> MaskOf(fea[i], per, m.grants)]]
            ELSE [id |-> "", fea |-> fea, per |-> <<>>, fpm |-> <<>>],
   malformed |-> FALSE]

\* decode_v2_permissions: bit j of a feature's mask grants permission j of
\* the list; a feature without a mask grants nothing.
DecodeV2(o) ==
  {Grant(o.fea[i], o.per[j]) :
     <<i, j>> \in {<<i, j>> \in (1 .. Len(o.fea)) \X (1 .. Len(o.per)) :
                     i <= Len(o.fpm) /\ Bit(o.fpm[i], j - 1)}}

\* auth_user_from_claims: the first list that is not empty, then the bitmap;
\* the V1 organization, then the V2 one.
PermissionsOf(c) ==
  IF c.org_permissions # {} THEN c.org_permissions
  ELSE IF c.permissions # {} THEN c.permissions
  ELSE DecodeV2(c.o)
OrgOf(c) == IF c.org_id # "" THEN c.org_id ELSE c.o.id

\* validate_claim_types first, then the two refusals of auth_user_from_claims
\* with the statuses AuthError gives them.
ClaimRefusal(c) ==
  IF c.malformed THEN "503"
  ELSE IF c.sub = "" THEN "401"
  ELSE IF OrgOf(c) = "" THEN "400"
  ELSE "ok"

IsAdmin(c) == c.role \in {"org:admin", "admin"} \/ ManageCameras \in PermissionsOf(c)

\* RequireView, RequireAdmin and RequireActiveBilling, in the order each
\* checks things.
GateAnswer(gate, c, due) ==
  IF ClaimRefusal(c) # "ok" THEN ClaimRefusal(c)
  ELSE IF gate = "view" THEN "ok"
  ELSE IF ~IsAdmin(c) THEN "403"
  ELSE IF gate = "billing" /\ due THEN "402"
  ELSE "ok"

Named(fea, per) ==
  {Grant(fea[i], per[j]) : i \in 1 .. Len(fea), j \in {k \in 1 .. Len(per) : per[k] # ""}}

ClaimsInit ==
  /\ \E fea \in Features, per \in Permissions, layout \in Layouts,
        user \in {"", "u"}, org \in {"", "o"}, role \in Roles, bad \in BOOLEAN :
       \E grants \in SUBSET Named(fea, per) :
         /\ membership = [user |-> user, org |-> org, role |-> role, grants |-> grants]
         /\ claims = [Encoded(membership, layout, fea, per) EXCEPT !.malformed = bad]
  /\ pastDue \in BOOLEAN
  /\ verdict = [g \in Gates |-> "unasked"]

\* A request reaches a route behind a gate.
AskGate(g) ==
  /\ verdict[g] = "unasked"
  /\ verdict' = [verdict EXCEPT ![g] = GateAnswer(g, claims, pastDue)]
  /\ UNCHANGED <<membership, claims, pastDue>>

ClaimsNext == \E g \in Gates : AskGate(g)

-----------------------------------------------------------------------------

\* Whatever the layout, the caller holds the grants Clerk encoded, no more and
\* no fewer, empty entries in the lists included: a decoder that dropped one
\* would shift every later bit and quietly grant or withhold admin.
GrantsGoRound ==
  ~claims.malformed => PermissionsOf(claims) = membership.grants

\* Only an admin learns that payment is past due, and a caller Clerk made an
\* admin is never refused as one.
BillingShownToAdmins ==
  LET admin == membership.role \in {"org:admin", "admin"}
               \/ ManageCameras \in membership.grants
  IN /\ verdict["billing"] = "402" => admin
     /\ admin => verdict["admin"] # "403"
     /\ verdict["admin"] = "ok" => admin
==============================================================================
