-------------------------------- MODULE Locale --------------------------------
(***************************************************************************)
(* system_locale, system_locale_string, system_language and               *)
(* system_country (src/src/log.c, the system.c part).                      *)
(*                                                                         *)
(* system_locale reads the "locale" string of the foundation config, else  *)
(* of the application config, and accepts it only when it is not          *)
(* LOCALE_BLANK and has exactly four characters; otherwise it answers the  *)
(* user locale (LOCALE_DEFAULT on POSIX).  It lower-cases characters 0-1   *)
(* (the language) and upper-cases characters 2-3 (the country) with the    *)
(* _LOCALE_CHAR_TO_* macros and memcpy's the four bytes into a uint32, so  *)
(* the value depends on the byte order of the target.                      *)
(*                                                                         *)
(* The user locale is LOCALE_DEFAULT on POSIX.  On Windows it is read     *)
(* with GetLocaleInfoEx(LOCALE_SNAME), converted to at most 7 characters,  *)
(* cut at 5, and accepted when it matches "??-??": the two letters before  *)
(* the dash and the two after it are packed as the locale.                 *)
(*                                                                         *)
(* A string is a sequence of character codes; LOCALE_BLANK is a value of  *)
(* its own because the code compares the pointer, and also stands for a    *)
(* kernel32 without GetLocaleInfoEx.                                       *)
(***************************************************************************)
EXTENDS Naturals, Sequences, TLC

CONSTANTS
  Blank,          \* LOCALE_BLANK
  FoundationCfgs, \* values config_string(HASH_FOUNDATION, HASH_LOCALE) may return
  AppCfgs,        \* values config_string(HASH_APPLICATION, HASH_LOCALE) may return
  DefaultLocale,  \* LOCALE_DEFAULT
  LittleEndian,   \* FOUNDATION_PLATFORM_ENDIAN_LITTLE
  Windows,        \* FOUNDATION_PLATFORM_WINDOWS
  UserLocales     \* LOCALE_SNAME values of the Windows user (Blank: no GetLocaleInfoEx)

\* A character of a C string.
Bytes == 0 .. 255

ASSUME LocaleAssumption ==
  /\ FoundationCfgs \cup AppCfgs \cup UserLocales \subseteq Seq(Bytes) \cup {Blank}
  /\ Blank \notin Seq(Bytes)
  /\ DefaultLocale \in Nat
  /\ LittleEndian \in BOOLEAN
  /\ Windows \in BOOLEAN
  /\ Windows => LittleEndian

VARIABLES
  cfg,     \* <<foundation locale, application locale>> as configured
  user,    \* the user's locale name (Windows)
  called,  \* the functions called so far
  results  \* results[f]: what function f returned when last called

vars == <<cfg, user, called, results>>

-----------------------------------------------------------------------------
\* x | 32 and x & ~32 on a character code.
Or32(x) == IF (x \div 32) % 2 = 1 THEN x ELSE x + 32

AndNot32(x) == IF (x \div 32) % 2 = 1 THEN x - 32 ELSE x

\* _LOCALE_CHAR_TO_LOWERCASE with its range test one character too wide.
ToLowerOffByOne(x) == IF x >= 65 /\ x <= 91 THEN Or32(x) ELSE x

\* _LOCALE_CHAR_TO_LOWERCASE and _LOCALE_CHAR_TO_UPPERCASE.
ToLower(x) == IF x >= 65 /\ x <= 90 THEN Or32(x) ELSE x

ToUpper(x) == IF x >= 97 /\ x <= 122 THEN AndNot32(x) ELSE x

\* The weight of byte i of a uint32_t in memory: 256^(i-1) on a
\* little-endian target, 256^(4-i) on a big-endian one.
Weight ==
  IF LittleEndian THEN << 1, 256, 65536, 16777216 >>
                  ELSE << 16777216, 65536, 256, 1 >>

\* memcpy of four bytes b[1..4] into a uint32_t, and back.
Pack(b) == b[1] * Weight[1] + b[2] * Weight[2] + b[3] * Weight[3] + b[4] * Weight[4]

Unpack(v) == [i \in 1 .. 4 |-> (v \div Weight[i]) % 256]

\* _system_default_locale (both builds).
system_default_locale == DefaultLocale

Dash == 45

\* The Windows _system_user_locale: the name cut at 5 characters, matched
\* against "??-??", and characters 0, 1, 3, 4 read as a uint32.
WindowsUserLocale(u) ==
  IF u = Blank THEN system_default_locale
  ELSE LET s == SubSeq(u, 1, IF Len(u) < 5 THEN Len(u) ELSE 5) IN
       IF Len(s) = 5 /\ s[3] = Dash
         THEN Pack(<< s[1], s[2], s[4], s[5] >>)
         ELSE system_default_locale

\* _system_user_locale of the build.
system_user_locale(u) ==
  IF Windows THEN WindowsUserLocale(u) ELSE system_default_locale

\* (locale == LOCALE_BLANK) || (string_length(locale) != 4), negated.
Usable(s) == s # Blank /\ Len(s) = 4

system_locale(c) ==
  LET s == IF Usable(c[1]) THEN c[1] ELSE c[2] IN
  IF ~Usable(s) THEN system_user_locale(user)
  ELSE Pack(<< ToLower(s[1]), ToLower(s[2]), ToUpper(s[3]), ToUpper(s[4]) >>)

\* memcpy(localestr, &locale, 4): the four characters, byte for byte.
system_locale_string(c) == Unpack(system_locale(c))

\* (uint16_t)((system_locale() >> 16) & 0xFFFF)
LanguageLowHalf(v) == v % 65536

Language(v) == (v \div 65536) % 65536

system_language(c) == Language(system_locale(c))

\* (uint16_t)(system_locale() & 0xFFFF)
system_country(c) == system_locale(c) % 65536

Init ==
  /\ cfg \in FoundationCfgs \X AppCfgs
  /\ user \in UserLocales
  /\ called = {}
  /\ results = [f \in {"locale", "string", "language", "country"} |->
                   IF f = "string" THEN << >> ELSE 0]

\* One action per public function: a call records what it returned.
CallLocale ==
  /\ results' = [results EXCEPT !["locale"] = system_locale(cfg)]
  /\ called' = called \cup {"locale"}
  /\ UNCHANGED <<cfg, user>>

CallLocaleString ==
  /\ results' = [results EXCEPT !["string"] = system_locale_string(cfg)]
  /\ called' = called \cup {"string"}
  /\ UNCHANGED <<cfg, user>>

CallLanguage ==
  /\ results' = [results EXCEPT !["language"] = system_language(cfg)]
  /\ called' = called \cup {"language"}
  /\ UNCHANGED <<cfg, user>>

CallCountry ==
  /\ results' = [results EXCEPT !["country"] = system_country(cfg)]
  /\ called' = called \cup {"country"}
  /\ UNCHANGED <<cfg, user>>

Next == CallLocale \/ CallLocaleString \/ CallLanguage \/ CallCountry

Spec == Init /\ [][Next]_vars

-----------------------------------------------------------------------------
(***************************************************************************)
(* Reference definitions: the locale a configuration names, with the      *)
(* language letters in lower case and the country letters in upper case.  *)
(***************************************************************************)
RefLower(x) == IF x \in 65 .. 90 THEN x + 32 ELSE x

RefUpper(x) == IF x \in 97 .. 122 THEN x - 32 ELSE x

IsLetter(x) == x \in 65 .. 90 \cup 97 .. 122

\* The user's language (the first subtag of the name) and country (the
\* last subtag), when both are two letters; otherwise the default.
RefUserLocale(u) ==
  LET dashes == {i \in 1 .. Len(u) : u[i] = Dash}
      first  == CHOOSE i \in dashes : \A j \in dashes : i <= j
      last   == CHOOSE i \in dashes : \A j \in dashes : j <= i
  IN  IF Windows /\ u # Blank /\ dashes # {} /\ first = 3 /\ last = Len(u) - 2
         /\ \A i \in {1, 2, Len(u) - 1, Len(u)} : IsLetter(u[i])
        THEN << RefLower(u[1]), RefLower(u[2]), RefUpper(u[Len(u) - 1]), RefUpper(u[Len(u)]) >>
        ELSE Unpack(DefaultLocale)

RefLocaleString(c) ==
  LET s == IF Usable(c[1]) THEN c[1] ELSE c[2] IN
  IF ~Usable(s) THEN RefUserLocale(user)
  ELSE << RefLower(s[1]), RefLower(s[2]), RefUpper(s[3]), RefUpper(s[4]) >>

\* memcpy of two characters into a uint16_t.
RefPair(a, b) == IF LittleEndian THEN a + b * 256 ELSE a * 256 + b

\* system_locale_string returns the configured locale, normalised: the
\* foundation config when usable, else the application config, else the
\* user's language and country (the default when the user locale has no
\* such pair), with the case of each character set by its position.
LocaleStringIsNormalisedConfig ==
  "string" \in called => results["string"] = RefLocaleString(cfg)

\* system_language returns the language letters of the locale (characters
\* 0-1, as memcpy lays them into a uint16_t) and system_country the country
\* letters (characters 2-3).
LanguageAndCountryLetters ==
  LET s == RefLocaleString(cfg) IN
  /\ "language" \in called => results["language"] = RefPair(s[1], s[2])
  /\ "country" \in called => results["country"] = RefPair(s[3], s[4])
=============================================================================
