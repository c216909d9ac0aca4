----------------------------- MODULE Locale_proofs -----------------------------
(***************************************************************************)
(* Proofs about the locale queries: what the case macros and the memcpy   *)
(* into a uint32_t compute, and what the four functions return, for every  *)
(* configuration of bytes and every default locale.                        *)
(*                                                                         *)
(* The arithmetic lemmas state the bound of a remainder as m < N: the     *)
(* provers handle that form much faster than an interval 0 .. N - 1.      *)
(***************************************************************************)
EXTENDS Locale, TLAPS

-----------------------------------------------------------------------------
(* Division with remainder by the byte weights of a uint32_t.             *)

LEMMA DivMod256 ==
  ASSUME NEW v \in Nat
  PROVE  v = (v \div 256) * 256 + (v % 256) /\ v \div 256 \in Nat /\ v % 256 \in Bytes
BY DEF Bytes

LEMMA Split256 ==
  ASSUME NEW k \in Nat, NEW m \in Nat, m < 256
  PROVE  (k * 256 + m) % 256 = m /\ (k * 256 + m) \div 256 = k
OBVIOUS

LEMMA Split65536 ==
  ASSUME NEW k \in Nat, NEW m \in Nat, m < 65536
  PROVE  (k * 65536 + m) % 65536 = m /\ (k * 65536 + m) \div 65536 = k
OBVIOUS

LEMMA Split16777216 ==
  ASSUME NEW k \in Nat, NEW m \in Nat, m < 16777216
  PROVE  (k * 16777216 + m) \div 16777216 = k
OBVIOUS

\* The bytes and the 16-bit halves of a number written in base 256.
LEMMA ByteSplit ==
  ASSUME NEW a \in Bytes, NEW b \in Bytes, NEW c \in Bytes, NEW d \in Bytes, NEW e \in Nat,
         NEW v, v = a + b * 256 + c * 65536 + d * 16777216 + e * 4294967296
  PROVE  /\ v % 256 = a
         /\ (v \div 256) % 256 = b
         /\ (v \div 65536) % 256 = c
         /\ (v \div 16777216) % 256 = d
         /\ v % 65536 = a + b * 256
         /\ (v \div 65536) % 65536 = c + d * 256
<1>0. /\ a \in Nat /\ a < 256 /\ b \in Nat /\ b < 256
      /\ c \in Nat /\ c < 256 /\ d \in Nat /\ d < 256
  BY DEF Bytes
<1>1. v % 256 = a /\ v \div 256 = b + c * 256 + d * 65536 + e * 16777216
  <2>1. v = (b + c * 256 + d * 65536 + e * 16777216) * 256 + a
    BY <1>0
  <2>. QED BY <1>0, <2>1, Split256
<1>2. (v \div 256) % 256 = b
  <2>1. b + c * 256 + d * 65536 + e * 16777216 = (c + d * 256 + e * 65536) * 256 + b
    BY <1>0
  <2>. QED BY <1>0, <1>1, <2>1, Split256
<1>3. v % 65536 = a + b * 256 /\ v \div 65536 = c + d * 256 + e * 65536
  <2>1. v = (c + d * 256 + e * 65536) * 65536 + (a + b * 256) /\ a + b * 256 < 65536
    BY <1>0
  <2>. QED BY <1>0, <2>1, Split65536
<1>4. (v \div 65536) % 256 = c
  <2>1. c + d * 256 + e * 65536 = (d + e * 256) * 256 + c
    BY <1>0
  <2>. QED BY <1>0, <1>3, <2>1, Split256
<1>5. (v \div 65536) % 65536 = c + d * 256
  <2>1. c + d * 256 + e * 65536 = e * 65536 + (c + d * 256) /\ c + d * 256 < 65536
    BY <1>0
  <2>. QED BY <1>0, <1>3, <2>1, Split65536
<1>6. (v \div 16777216) % 256 = d
  <2>1. /\ v = (d + e * 256) * 16777216 + (a + b * 256 + c * 65536)
        /\ a + b * 256 + c * 65536 < 16777216
    BY <1>0
  <2>2. v \div 16777216 = e * 256 + d
    BY <1>0, <2>1, Split16777216
  <2>. QED BY <1>0, <2>2, Split256
<1>. QED BY <1>1, <1>2, <1>3, <1>4, <1>5, <1>6

\* The digits of a number in base 256: four bytes and a high part (the
\* bits a uint32_t would drop).
Digit0(v) == v % 256
Digit1(v) == (v \div 256) % 256
Digit2(v) == ((v \div 256) \div 256) % 256
Digit3(v) == (((v \div 256) \div 256) \div 256) % 256
High(v) == (((v \div 256) \div 256) \div 256) \div 256

\* Every natural number is written in base 256 with these digits.
LEMMA FourBytes ==
  ASSUME NEW v \in Nat
  PROVE  /\ Digit0(v) \in Bytes /\ Digit1(v) \in Bytes
         /\ Digit2(v) \in Bytes /\ Digit3(v) \in Bytes /\ High(v) \in Nat
         /\ v = Digit0(v) + Digit1(v) * 256 + Digit2(v) * 65536
                + Digit3(v) * 16777216 + High(v) * 4294967296
<1> DEFINE q1 == v \div 256  q2 == q1 \div 256  q3 == q2 \div 256
<1>1. v = q1 * 256 + (v % 256) /\ q1 \in Nat /\ v % 256 \in Bytes
  BY DivMod256
<1>2. q1 = q2 * 256 + (q1 % 256) /\ q2 \in Nat /\ q1 % 256 \in Bytes
  BY <1>1, DivMod256
<1>3. q2 = q3 * 256 + (q2 % 256) /\ q3 \in Nat /\ q2 % 256 \in Bytes
  BY <1>2, DivMod256
<1>4. q3 = (q3 \div 256) * 256 + (q3 % 256) /\ q3 \div 256 \in Nat /\ q3 % 256 \in Bytes
  BY <1>3, DivMod256
<1>. QED
  BY <1>1, <1>2, <1>3, <1>4 DEF Digit0, Digit1, Digit2, Digit3, High

-----------------------------------------------------------------------------
(* The case macros and the memcpy's.                                      *)

\* The case macros agree with the reference case maps on every byte, and
\* keep it a byte.
LEMMA CaseMaps ==
  ASSUME NEW x \in Bytes
  PROVE  /\ ToLower(x) = RefLower(x) /\ RefLower(x) \in Bytes
         /\ ToUpper(x) = RefUpper(x) /\ RefUpper(x) \in Bytes
<1>1. ToLower(x) = RefLower(x) /\ RefLower(x) \in Bytes
  BY DEF ToLower, Or32, RefLower, Bytes
<1>2. ToUpper(x) = RefUpper(x) /\ RefUpper(x) \in Bytes
  BY DEF ToUpper, AndNot32, RefUpper, Bytes
<1>. QED
  BY <1>1, <1>2

\* Four bytes copied into a uint32_t make a number.
LEMMA PackNat ==
  ASSUME NEW a \in Bytes, NEW b \in Bytes, NEW c \in Bytes, NEW d \in Bytes
  PROVE  Pack(<< a, b, c, d >>) \in Nat
BY LocaleAssumption DEF Pack, Weight, Bytes

\* Copying four bytes into a uint32_t and back gives the same bytes, on
\* either byte order.
LEMMA RoundTrip ==
  ASSUME NEW a \in Bytes, NEW b \in Bytes, NEW c \in Bytes, NEW d \in Bytes
  PROVE  Unpack(Pack(<< a, b, c, d >>)) = << a, b, c, d >>
<1>1. CASE LittleEndian
  <2> DEFINE v == a + b * 256 + c * 65536 + d * 16777216 + 0 * 4294967296
  <2>1. Pack(<< a, b, c, d >>) = v
    BY <1>1 DEF Pack, Weight, Bytes
  <2>2. v \div 1 = v
    BY DEF Bytes
  <2>3. v = a + b * 256 + c * 65536 + d * 16777216 + 0 * 4294967296 /\ 0 \in Nat
    OBVIOUS
  <2> HIDE DEF v
  <2>4. /\ v % 256 = a /\ (v \div 256) % 256 = b
        /\ (v \div 65536) % 256 = c /\ (v \div 16777216) % 256 = d
    BY <2>3, ByteSplit
  <2>. QED
    BY <1>1, <2>1, <2>2, <2>4 DEF Unpack, Weight
<1>2. CASE ~LittleEndian
  <2> DEFINE v == d + c * 256 + b * 65536 + a * 16777216 + 0 * 4294967296
  <2>1. Pack(<< a, b, c, d >>) = v
    BY <1>2 DEF Pack, Weight, Bytes
  <2>2. v \div 1 = v
    BY DEF Bytes
  <2>3. v = d + c * 256 + b * 65536 + a * 16777216 + 0 * 4294967296 /\ 0 \in Nat
    OBVIOUS
  <2> HIDE DEF v
  <2>4. /\ v % 256 = d /\ (v \div 256) % 256 = c
        /\ (v \div 65536) % 256 = b /\ (v \div 16777216) % 256 = a
    BY <2>3, ByteSplit
  <2>. QED
    BY <1>2, <2>1, <2>2, <2>4 DEF Unpack, Weight
<1>. QED
  BY <1>1, <1>2

-----------------------------------------------------------------------------
(* What system_locale and system_locale_string return on a POSIX build.   *)

\* On a POSIX build the locale is a number, and the locale string is the
\* configured locale normalised, or the default when no config is usable.
LEMMA LocaleValue ==
  ASSUME ~Windows, NEW c \in FoundationCfgs \X AppCfgs
  PROVE  /\ system_locale(c) \in Nat
         /\ system_locale_string(c) = RefLocaleString(c)
<1> DEFINE s == IF Usable(c[1]) THEN c[1] ELSE c[2]
<1>1. s \in Seq(Bytes) \cup {Blank}
  BY LocaleAssumption
<1>2. CASE Usable(s)
  <2>1. s \in Seq(Bytes) /\ Len(s) = 4
    BY <1>1, <1>2 DEF Usable
  <2>2. s[1] \in Bytes /\ s[2] \in Bytes /\ s[3] \in Bytes /\ s[4] \in Bytes
    BY <2>1
  <2>3. /\ system_locale(c) = Pack(<< ToLower(s[1]), ToLower(s[2]), ToUpper(s[3]), ToUpper(s[4]) >>)
        /\ RefLocaleString(c) = << RefLower(s[1]), RefLower(s[2]), RefUpper(s[3]), RefUpper(s[4]) >>
    BY <1>2 DEF system_locale, RefLocaleString
  <2>4. /\ ToLower(s[1]) = RefLower(s[1]) /\ RefLower(s[1]) \in Bytes
        /\ ToLower(s[2]) = RefLower(s[2]) /\ RefLower(s[2]) \in Bytes
        /\ ToUpper(s[3]) = RefUpper(s[3]) /\ RefUpper(s[3]) \in Bytes
        /\ ToUpper(s[4]) = RefUpper(s[4]) /\ RefUpper(s[4]) \in Bytes
    BY <2>2, CaseMaps
  <2>. QED
    BY <2>3, <2>4, PackNat, RoundTrip DEF system_locale_string
<1>3. CASE ~Usable(s)
  <2>1. system_locale(c) = DefaultLocale
    BY <1>3 DEF system_locale, system_user_locale, system_default_locale
  <2>2. RefLocaleString(c) = Unpack(DefaultLocale)
    BY <1>3 DEF RefLocaleString, RefUserLocale
  <2>. QED
    BY <2>1, <2>2, LocaleAssumption DEF system_locale_string
<1>. QED
  BY <1>2, <1>3

\* On a big-endian target the high half of a uint32_t holds its first two
\* bytes in memory, and the low half its last two.
LEMMA HalvesBigEndian ==
  ASSUME ~LittleEndian, NEW v \in Nat
  PROVE  /\ Language(v) = RefPair(Unpack(v)[1], Unpack(v)[2])
         /\ v % 65536 = RefPair(Unpack(v)[3], Unpack(v)[4])
<1> DEFINE a == Digit0(v)  b == Digit1(v)  c == Digit2(v)  d == Digit3(v)  e == High(v)
<1>1. /\ a \in Bytes /\ b \in Bytes /\ c \in Bytes /\ d \in Bytes /\ e \in Nat
      /\ v = a + b * 256 + c * 65536 + d * 16777216 + e * 4294967296
  BY FourBytes
<1> HIDE DEF a, b, c, d, e
<1>2. /\ v % 256 = a /\ (v \div 256) % 256 = b
      /\ (v \div 65536) % 256 = c /\ (v \div 16777216) % 256 = d
      /\ v % 65536 = a + b * 256 /\ (v \div 65536) % 65536 = c + d * 256
  BY <1>1, ByteSplit
<1>3. Unpack(v)[1] = d /\ Unpack(v)[2] = c /\ Unpack(v)[3] = b /\ Unpack(v)[4] = a
  <2>1. v \div 1 = v
    OBVIOUS
  <2>. QED
    BY <1>2, <2>1 DEF Unpack, Weight
<1>. QED
  BY <1>1, <1>2, <1>3 DEF Language, RefPair, Bytes

-----------------------------------------------------------------------------
(* The inductive invariant: every call has returned what the function     *)
(* computes from the configuration, which no call changes.                *)

Fns == {"locale", "string", "language", "country"}

Returns ==
  /\ "locale" \in called => results["locale"] = system_locale(cfg)
  /\ "string" \in called => results["string"] = system_locale_string(cfg)
  /\ "language" \in called => results["language"] = system_language(cfg)
  /\ "country" \in called => results["country"] = system_country(cfg)

IInv ==
  /\ cfg \in FoundationCfgs \X AppCfgs
  /\ DOMAIN results = Fns
  /\ Returns

LEMMA InitIInv == Init => IInv
<1> SUFFICES ASSUME Init PROVE IInv
  OBVIOUS
<1>. QED
  BY DEF Init, IInv, Returns, Fns

\* The four functions read nothing but the configuration and the user's
\* locale name.
LEMMA Frame ==
  ASSUME UNCHANGED << cfg, user >>
  PROVE  /\ system_locale(cfg)' = system_locale(cfg)
         /\ system_locale_string(cfg)' = system_locale_string(cfg)
         /\ system_language(cfg)' = system_language(cfg)
         /\ system_country(cfg)' = system_country(cfg)
BY DEF system_locale, system_locale_string, system_language, system_country

LEMMA NextIInv == IInv /\ [Next]_vars => IInv'
<1> SUFFICES ASSUME IInv, [Next]_vars PROVE IInv'
  OBVIOUS
<1> USE DEF IInv, Returns, Fns
<1>1. CASE CallLocale
  BY <1>1, Frame DEF CallLocale
<1>2. CASE CallLocaleString
  BY <1>2, Frame DEF CallLocaleString
<1>3. CASE CallLanguage
  BY <1>3, Frame DEF CallLanguage
<1>4. CASE CallCountry
  BY <1>4, Frame DEF CallCountry
<1>5. CASE UNCHANGED vars
  BY <1>5, Frame DEF vars
<1>. QED
  BY <1>1, <1>2, <1>3, <1>4, <1>5 DEF Next

LEMMA AlwaysIInv == Spec => []IInv
BY InitIInv, NextIInv, PTL DEF Spec

-----------------------------------------------------------------------------
\* On a POSIX build, whatever the two configs hold, system_locale_string
\* returns the foundation config when it is usable, else the application
\* config, else the default locale, with characters 0-1 in lower case and
\* 2-3 in upper case (system_locale and system_locale_string, log.c).
THEOREM LocaleStringNormalised ==
  ASSUME ~Windows
  PROVE  Spec => []LocaleStringIsNormalisedConfig
<1>1. IInv => LocaleStringIsNormalisedConfig
  BY LocaleValue DEF IInv, Returns, LocaleStringIsNormalisedConfig
<1>. QED
  BY <1>1, AlwaysIInv, PTL

\* On a big-endian target system_language returns the two language letters
\* of the locale string and system_country the two country letters, as a
\* uint16_t holds them in memory.
THEOREM LanguageCountryBigEndian ==
  ASSUME ~LittleEndian
  PROVE  Spec => []LanguageAndCountryLetters
<1>1. ~Windows
  BY LocaleAssumption
<1>2. IInv => LanguageAndCountryLetters
  <2> SUFFICES ASSUME IInv PROVE LanguageAndCountryLetters
    OBVIOUS
  <2>1. /\ system_locale(cfg) \in Nat
        /\ RefLocaleString(cfg) = Unpack(system_locale(cfg))
    BY <1>1, LocaleValue DEF IInv, system_locale_string
  <2>2. /\ Language(system_locale(cfg)) = RefPair(Unpack(system_locale(cfg))[1], Unpack(system_locale(cfg))[2])
        /\ system_locale(cfg) % 65536 = RefPair(Unpack(system_locale(cfg))[3], Unpack(system_locale(cfg))[4])
    BY <2>1, HalvesBigEndian
  <2>. QED
    BY <2>1, <2>2 DEF IInv, Returns, LanguageAndCountryLetters, system_language, system_country
<1>. QED
  BY <1>2, AlwaysIInv, PTL
=============================================================================
