------------------------------- MODULE RateKey -------------------------------
(***************************************************************************)
(* Which connections share a rate-limit bucket: the key of                 *)
(* internal/ratelimit/key.go.                                              *)
(*                                                                         *)
(* An address is a sequence of 32-bit words: one for IPv4, four for IPv6.  *)
(* The HMAC of the normalised address is injective for what is asked here  *)
(* and stands for itself.                                                  *)
(***************************************************************************)
EXTENDS Integers, Sequences

NoIP == << >>   \* a nil net.IP; for FromConn, no key

\* The third word of ::ffff:a.b.c.d.
MappedWord == 65535

IsMapped(ip) == Len(ip) = 4 /\ SubSeq(ip, 1, 3) = <<0, 0, MappedWord>>

\* net.IP.To4: nil for an IPv6 address that maps no IPv4 address.
To4(ip) ==
  CASE Len(ip) = 1  -> ip
    [] IsMapped(ip) -> <<ip[4]>>
    [] OTHER        -> NoIP

\* Mutant: a mapped address is masked like any other IPv6 address.
normalizeIPNo4(ip) ==
  CASE Len(ip) = 1 -> ip
    [] Len(ip) = 4 -> <<ip[1], ip[2], 0, 0>>
    [] OTHER       -> NoIP

\* IPv4, mapped or not, is kept whole, IPv6 is cut to its /64, any other length is nil.
normalizeIP(ip) ==
  IF To4(ip) # NoIP THEN To4(ip)
  ELSE IF Len(ip) = 4 THEN <<ip[1], ip[2], 0, 0>> ELSE NoIP

\* net.SplitHostPort and net.ParseIP of an address that is neither TCP nor IP.
Parsed(addr) == IF addr.parses THEN addr.ip ELSE NoIP

extractIP(addr) ==
  normalizeIP(IF addr.net \in {"tcp", "ip"} THEN addr.ip ELSE Parsed(addr))

FromConn(addr) == extractIP(addr)
------------------------------------------------------------------------------
(* The reference: who is behind an address. *)

\* The IPv4 host an address names, however it is written, or none.
Host4(ip) == IF Len(ip) = 1 THEN ip[1] ELSE IF IsMapped(ip) THEN ip[4] ELSE -1

SameClient(p, q) ==
  IF Host4(p) >= 0 \/ Host4(q) >= 0 THEN Host4(p) = Host4(q)
  ELSE SubSeq(p, 1, 2) = SubSeq(q, 1, 2)

\* Two connections with a key share a bucket exactly when they come from the same IPv4
\* host, over an IPv4 or a dual-stack socket, or from the same IPv6 /64: no IPv6 client
\* of ::/64 shares with the IPv4 world.  Every address of a valid length has a key.
KeysAgree(a, b) ==
  /\ FromConn(a) # NoIP /\ FromConn(b) # NoIP =>
       (FromConn(a) = FromConn(b) <=> SameClient(a.ip, b.ip))
  /\ a.net # "other" /\ Len(a.ip) \in {1, 4} => FromConn(a) # NoIP
==============================================================================
