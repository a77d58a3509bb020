-------------------------------- MODULE UrlWords --------------------------------
(*******************************************************************************)
(* The two parsers of url.c as operators: url_to_words, with which the client  *)
(* reads a command, and url_to_data, with which the one-shot client does.      *)
(* A url is a sequence of characters.                                          *)
(*******************************************************************************)
EXTENDS Integers, Sequences, SequencesExt, FiniteSetsExt

DefaultPort == 80
ShortRange == 65536            \* unsigned short, and what htons takes
SCHEMEMAX == 32

DigitValue == [c \in {"0", "1", "2", "3", "4", "5", "6", "7", "8", "9"} |->
                 CHOOSE v \in 0 .. 9 : c = <<"0", "1", "2", "3", "4", "5", "6", "7", "8", "9">>[v + 1]]

(* strstr: where in s the first p begins, 0 if nowhere; and what follows it.    *)
Find(s, p) ==
  LET found == {i \in 1 .. Len(s) - Len(p) + 1 : SubSeq(s, i, i + Len(p) - 1) = p}
  IN IF found = {} THEN 0 ELSE Min(found)
Behind(s, k) == SubSeq(s, k + 1, Len(s))
\* strncpy with a terminator behind it: at most n characters.
Copy(s, n) == SubSeq(s, 1, IF n < Len(s) THEN n ELSE Len(s))

(* strtol: what the digits mean that s begins with.                             *)
Decimal(d) ==
  LET value[n \in 0 .. Len(d)] ==
        IF n = 0 THEN 0 ELSE 10 * value[n - 1] + DigitValue[d[n]]
  IN value[Len(d)]
Number(s) ==
  LET nonDigit == SelectInSeq(s, LAMBDA c : c \notin DOMAIN DigitValue)
  IN Decimal(Copy(s, IF nonDigit = 0 THEN Len(s) ELSE nonDigit - 1))

(* What both parsers do alike: the scheme is cut off, the path begins at the    *)
(* first slash, and in all of what follows the scheme, path included, an "@"    *)
(* ends an account and a ":" the domain.                                        *)
SchemeEnd(url) == Find(url, <<":", "/", "/">>)
SchemeTooLong(url) == SchemeEnd(url) > SCHEMEMAX + 1
Remainder(url) == IF SchemeEnd(url) = 0 THEN url ELSE Behind(url, SchemeEnd(url) + 2)
Slash(url) == Find(Remainder(url), <<"/">>)
SessionLen(url) == IF Slash(url) = 0 THEN Len(Remainder(url)) ELSE Slash(url) - 1
Host(url) == Behind(Remainder(url), Find(Remainder(url), <<"@">>))
Colon(url) == Find(Host(url), <<":">>)
\* Fault variants (DomainAndPort, UrlToWordsWide), as in Exchange.
DomainAndPort(url) == Copy(Host(url), SessionLen(url))

Domain(url) == Copy(Host(url), IF Colon(url) = 0 THEN SessionLen(url) ELSE Colon(url) - 1)
Port(url) == IF Colon(url) = 0 THEN DefaultPort ELSE Number(Behind(Host(url), Colon(url)))
Path(url) == IF Slash(url) = 0 THEN <<>> ELSE Behind(Remainder(url), Slash(url) - 1)

(* url_to_words as interprete_single_command calls it.  Of the path as many     *)
(* characters are copied as stand before it; without a path dir is not written, *)
(* which old leaves.                                                            *)
PathCopied(url) == Copy(Path(url), SessionLen(url))
UrlToWordsWide(url, old) ==
  [domain |-> Domain(url), port |-> Port(url),
   dir |-> IF Slash(url) = 0 THEN old ELSE PathCopied(url)]

UrlToWords(url, old) ==
  [domain |-> Domain(url),
   port |-> Port(url) % ShortRange,
   dir |-> IF Slash(url) = 0 THEN old ELSE PathCopied(url)]

(* url_to_data: cstrndup writes no terminator, so that the domain is followed   *)
(* by what the memory holds; an int holds the port until htons.                 *)
UrlToData(url, rubbish) ==
  [domain |-> Domain(url) \o rubbish, port |-> Port(url) % ShortRange, dir |-> Path(url)]
=================================================================================
