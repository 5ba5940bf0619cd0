------------------------------- MODULE NetMap -------------------------------
(***************************************************************************)
(* How the redactor replaces addresses and networks                        *)
(* (collectors/internal/redact/network.go), each one once and for all      *)
(* (Registry.Get).                                                         *)
(*                                                                         *)
(* An address is its bits, the first one on the left; a literal is an      *)
(* address or a network of `ones` bits.  What is not one of these gets a   *)
(* name made up by hashing, and is left out with its formatting.           *)
(***************************************************************************)
EXTENDS Naturals, Sequences

CONSTANTS
  Flips(_, _, _), \* whether the keyed hash of the class, the bits before and the place is odd
  Literals,       \* the literals there may be: [bits, ones, net]
  MaxLiterals     \* bound: how many of them one estate has

ASSUME NetMapAssumption ==
  \A l \in Literals :
    /\ Len(l.bits) \in {32, 128} /\ l.bits \in [1..Len(l.bits) -> {0, 1}]
    /\ l.ones \in 0..Len(l.bits) /\ l.net \in BOOLEAN

VARIABLES
  estate,   \* the literals of the files that are redacted
  fakes     \* what stands for each that was met

netVars == <<estate, fakes>>

-----------------------------------------------------------------------------
(* Addresses.                                                              *)

StartsWith(v, c) == \A i \in DOMAIN c : v[i] = c[i]
Share(v, w, n) == \A i \in 1..n : v[i] = w[i]

Private == {
  <<0, 0, 0, 0, 1, 0, 1, 0>>,                           \* 10/8
  <<1, 0, 1, 0, 1, 1, 0, 0, 0, 0, 0, 1>>,               \* 172.16/12
  <<1, 1, 0, 0, 0, 0, 0, 0, 1, 0, 1, 0, 1, 0, 0, 0>>,   \* 192.168/16
  <<0, 1, 1, 1, 1, 1, 1, 1>>,                           \* 127/8
  <<1, 0, 1, 0, 1, 0, 0, 1, 1, 1, 1, 1, 1, 1, 1, 0>>,   \* 169.254/16
  <<0, 1, 1, 0, 0, 1, 0, 0, 0, 1>>}                     \* 100.64/10
Reserved == <<1, 1, 1, 1>>                              \* 240/4: stands for all others
UniqueLocal == <<1, 1, 1, 1, 1, 1, 0, 1>>               \* stands for every IPv6 address

(* A class is the bits the fakes of its addresses start with.              *)
Class(v) ==
  IF Len(v) = 128 THEN UniqueLocal
  ELSE IF \E c \in Private : StartsWith(v, c) THEN CHOOSE c \in Private : StartsWith(v, c)
       ELSE Reserved

(* A faulty variant: every bit is hashed with the whole address.           *)
BeforeAll(v, i) == v

(* What the bit at i is hashed with: the bits before it, in IPv6 the bytes *)
(* before its own; those of the class excepted.                            *)
Before(v, i) ==
  [j \in (Len(Class(v)) + 1)..(IF Len(v) = 128 THEN 8 * ((i - 1) \div 8) ELSE i - 1) |-> v[j]]

Scrambled(v) ==
  [i \in 1..Len(v) |->
     IF i \in DOMAIN Class(v) THEN Class(v)[i]
     ELSE IF Flips(Class(v), Before(v, i), i) THEN 1 - v[i]
     ELSE v[i]]

-----------------------------------------------------------------------------
(* Literals.  A network is read as its own address, with no host bits; in  *)
(* IPv4 its fake has none either.                                          *)

Masked(v, n) == [i \in 1..Len(v) |-> IF i <= n THEN v[i] ELSE 0]
Real(l) == IF l.net THEN Masked(l.bits, l.ones) ELSE l.bits

IsZero(v) == \A i \in 1..Len(v) : v[i] = 0
IsLoopback6(v) == Len(v) = 128 /\ v[128] = 1 /\ \A i \in 1..127 : v[i] = 0

(* "Any" stays as it is, and so does ::1.                                  *)
Verbatim(l) == IF l.net THEN l.ones = 0 ELSE IsZero(l.bits) \/ IsLoopback6(l.bits)

Mapped(l) ==
  IF Verbatim(l) THEN l.bits
  ELSE IF l.net /\ Len(l.bits) = 32 THEN Masked(Scrambled(Real(l)), l.ones)
  ELSE Scrambled(Real(l))

-----------------------------------------------------------------------------
(* The registry: the fake of a literal is made when it is first met.       *)

NetInit ==
  /\ estate \in {{f[i] : i \in 1..MaxLiterals} : f \in [1..MaxLiterals -> Literals]} \cup {{}}
  /\ fakes = [l \in {} |-> << >>]

Replace(l) ==
  /\ l \in estate \ DOMAIN fakes
  /\ fakes' = [k \in DOMAIN fakes \cup {l} |-> IF k = l THEN Mapped(l) ELSE fakes[k]]
  /\ UNCHANGED estate

NetNext == \E l \in estate : Replace(l)

NetSpec == NetInit /\ [][NetNext]_netVars

-----------------------------------------------------------------------------
(* Properties.                                                             *)

Replaced == {l \in DOMAIN fakes : ~Verbatim(l)}
Ones(l) == IF l.net THEN l.ones ELSE Len(l.bits)

Alikes(k, l) == Len(k.bits) = Len(l.bits) /\ Class(Real(k)) = Class(Real(l))

(* "Class is preserved (private->private, public->reserved 240/4)": of a   *)
(* network, if it is not wider than its class.                             *)
ClassKept(l) ==
  Ones(l) >= Len(Class(Real(l))) => StartsWith(fakes[l], Class(Real(l)))

(* "If two real addresses share an n-bit prefix, their fakes share an      *)
(* n-bit prefix (so same-subnet co-membership and CIDR containment         *)
(* survive)", addresses and networks alike, whichever is met first; and    *)
(* two that part after the bits of their class part at the same bit, so    *)
(* that nothing joins what was apart (netMapper).  This is within a class: *)
(* a network around addresses of several of them does not keep them, and   *)
(* what tells public addresses apart in their first four bits is lost.     *)
TopologyPreserved ==
  \A k, l \in Replaced :
    /\ ClassKept(l)
    /\ Alikes(k, l) => \A n \in 1..Len(k.bits) : n <= Ones(k) /\ n <= Ones(l) =>
         /\ Share(Real(k), Real(l), n) => Share(fakes[k], fakes[l], n)
         /\ Share(Real(k), Real(l), n - 1) /\ n \notin DOMAIN Class(Real(k)) =>
              (fakes[k][n] = fakes[l][n] <=> Real(k)[n] = Real(l)[n])

=============================================================================
