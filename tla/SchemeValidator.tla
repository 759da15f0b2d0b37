-------------------------- MODULE SchemeValidator --------------------------
(***************************************************************************)
(* The validator of a tenant's scheme: three chained checkers, each of     *)
(* which visits all addresses of the scheme and writes a verdict per site  *)
(* and service into one shared result.  Sites and services are Go maps, so *)
(* addresses are visited in any order.                                     *)
(*                                                                         *)
(* An address is a protocol prefix and a host; two addresses are the same  *)
(* string when both agree.  A host is known by the labels between its dots *)
(* (none when it cannot be parsed).                                        *)
(***************************************************************************)
EXTENDS Naturals, Sequences

CONSTANTS
    Tenant, Self,      \* tenants; the one whose scheme is checked
    Site, Service,
    Host, LabelsOf,    \* hosts, and their labels from left to right
    MaxPlaces,         \* bound on addresses in the scheme checked
    MaxRows            \* bound on addresses in the rows of the table

ASSUME ValidatorAssumption ==
    /\ Self \in Tenant
    /\ MaxPlaces \in Nat \ {0} /\ MaxRows \in Nat \ {0}

Protocol == {"", "http://", "https://"}
Address == [protocol : Protocol, host : Host]
Place == [site : Site, service : Service, address : Address]
Row == [tenant : Tenant, service : Service, address : Address]

VARIABLES
    places,    \* the scheme: where it has which addresses
    rows,      \* dao.FindAll: addresses of all tenants' services
    checker,   \* the checker at work
    left,      \* what it has not visited yet
    result     \* the verdicts so far: <<site, service>> -> verdict

vars == <<places, rows, checker, left, result>>

Checkers == <<"url", "tenant", "scheme">>
Valid == "valid"

-----------------------------------------------------------------------------
(* The three checks of one address.                                        *)

\* A label is a record of what validatePart looks at.
ValidLabel(l, isLast) ==
    /\ l.length \in 1..63
    /\ l.inTable
    /\ l.first # "dash" /\ l.last # "dash"
    /\ ~(isLast /\ l.first = "digit")

ValidUrl(address) ==
    LET labels == LabelsOf[address.host] IN
    /\ Len(labels) \in 1..127
    /\ \A i \in DOMAIN labels : ValidLabel(labels[i], i = Len(labels))

Without(protocols, address) ==
    IF address.protocol \in protocols THEN [address EXCEPT !.protocol = ""] ELSE address
WithoutHttp(address) == Without({"http://"}, address)
WithoutProtocol(address) == Without({"http://", "https://"}, address)

UniqueInTenantOneSided(p) ==
    \A q \in places :
        q.service = p.service \/ q.address # WithoutHttp(p.address)

\* Only http:// is cut, of both addresses.
UniqueInTenant(p) ==
    \A q \in places :
        q.service = p.service \/ WithoutHttp(q.address) # WithoutHttp(p.address)

\* Rows are compared as they are stored; a service of the same name may share.
UniqueInScheme(p) ==
    \A r \in rows :
        r.tenant = Self \/ r.service = p.service \/ r.address # WithoutProtocol(p.address)

Passes(check, p) ==
    CASE check = "url"    -> ValidUrl(p.address)
      [] check = "tenant" -> UniqueInTenant(p)
      [] check = "scheme" -> UniqueInScheme(p)

-----------------------------------------------------------------------------
Init ==
    /\ \E p \in [1..MaxPlaces -> Place] : places = {p[i] : i \in 1..MaxPlaces}
    /\ \E r \in [1..MaxRows -> Row] : rows = {r[i] : i \in 1..MaxRows}
    /\ checker = 1 /\ left = places
    /\ result = <<>>

Set(key, verdict) ==
    result' = [k \in DOMAIN result \union {key} |-> IF k = key THEN verdict ELSE result[k]]

VisitLastWins(p) ==
    /\ p \in left
    /\ left' = left \ {p}
    /\ Set(<<p.site, p.service>>,
           IF Passes(Checkers[checker], p) THEN Valid ELSE Checkers[checker])
    /\ UNCHANGED <<places, rows, checker>>

\* iterateOverTenant: an error overwrites, no error only fills a gap.
Visit(p) ==
    /\ p \in left
    /\ left' = left \ {p}
    /\ LET key == <<p.site, p.service>> IN
       IF ~Passes(Checkers[checker], p) THEN Set(key, Checkers[checker])
       ELSE IF key \notin DOMAIN result THEN Set(key, Valid)
       ELSE UNCHANGED result
    /\ UNCHANGED <<places, rows, checker>>

NextCheckerUnbounded ==
    /\ left = {}
    /\ checker' = checker + 1
    /\ left' = IF checker < Len(Checkers) THEN places ELSE {}
    /\ UNCHANGED <<places, rows, result>>

NextChecker ==
    /\ left = {} /\ checker <= Len(Checkers)
    /\ checker' = checker + 1
    /\ left' = IF checker < Len(Checkers) THEN places ELSE {}
    /\ UNCHANGED <<places, rows, result>>

Next == NextChecker \/ \E p \in left : Visit(p)

Spec == Init /\ [][Next]_vars

-----------------------------------------------------------------------------
(* Properties.                                                             *)

Keys == {<<p.site, p.service>> : p \in places}
Done == checker > Len(Checkers)

Verdicts == {Valid, "url", "tenant", "scheme"}

TypeOK ==
    /\ places \subseteq Place /\ left \subseteq places
    /\ rows \subseteq Row
    /\ checker \in 1..(Len(Checkers) + 1)
    /\ DOMAIN result \subseteq Site \X Service
    /\ \A k \in DOMAIN result : result[k] \in Verdicts

(* Whatever the order of the maps, the answer is: a service with an        *)
(* address gets the reason of the last checker that rejects one of its     *)
(* addresses, and is valid when none does.                                 *)
Failing(k) ==
    {i \in DOMAIN Checkers : \E p \in places :
        <<p.site, p.service>> = k /\ ~Passes(Checkers[i], p)}
Reference(k) ==
    IF Failing(k) = {} THEN Valid
    ELSE Checkers[CHOOSE i \in Failing(k) : \A j \in Failing(k) : j <= i]
OrderIsIrrelevant == Done => result = [k \in Keys |-> Reference(k)]

(* A service once found invalid never becomes valid again.                 *)
InvalidSticks ==
    [][\A k \in DOMAIN result :
          result[k] # Valid => k \in DOMAIN result' /\ result'[k] # Valid]_vars

(* When two services of the tenant have one address, be it on different    *)
(* sites or with http:// on one side only, both are reported.              *)
BothSidesReported ==
    Done => \A p, q \in places :
        p.service # q.service /\ WithoutHttp(p.address) = WithoutHttp(q.address)
        => result[<<p.site, p.service>>] # Valid /\ result[<<q.site, q.service>>] # Valid

(* src/README.md: schemes are validated to be "unique across tenants": an  *)
(* address that a row of another tenant has is never valid.                *)
UniqueAcrossTenants ==
    Done => \A p \in places :
        result[<<p.site, p.service>>] = Valid
        => \A r \in rows : r.tenant # Self => r.address # p.address
=============================================================================
