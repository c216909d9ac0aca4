------------------------------ MODULE MC_Locale ------------------------------
(* Foundation configs of four characters whose language positions take     *)
(* the codes around 'A'..'Z' ('@', 'A', 'Z', '[') and 'a', and whose       *)
(* country positions take the codes around 'a'..'z' ('`', 'a', 'z', '{')   *)
(* and 'A'; plus LOCALE_BLANK and strings of three and five characters.    *)
(* The application config is blank, usable ("deDE") or too short.          *)
EXTENDS Locale

CONSTANTS BLANK

LangCodes == {64, 65, 90, 91, 97}
CountryCodes == {96, 97, 122, 123, 65}

MCFoundationCfgs ==
  {<<a, b, c, d>> : a \in LangCodes, b \in LangCodes, c \in CountryCodes, d \in CountryCodes}
  \cup {BLANK, <<101, 110, 85>>, <<101, 110, 85, 83, 83>>}

MCAppCfgs == {BLANK, <<100, 101, 68, 69>>, <<68, 101>>}

\* POSIX builds have no user locale name.
MCNoUserLocales == {BLANK}

\* Windows: configs that leave the choice to the user locale, and user
\* locale names of the LOCALE_SNAME shapes: "en-US", "fil-PH" (three-letter
\* language), "sr-Latn-RS" (script subtag), "es-419" (numeric region), "de"
\* (no region), and no GetLocaleInfoEx at all.
MCWinFoundationCfgs == {BLANK, <<101, 110, 85, 83>>}

MCWinAppCfgs == {BLANK}

MCWinUserLocales ==
  { BLANK,
    <<101, 110, 45, 85, 83>>,
    <<102, 105, 108, 45, 80, 72>>,
    <<115, 114, 45, 76, 97, 116, 110, 45, 82, 83>>,
    <<101, 115, 45, 52, 49, 57>>,
    <<100, 101>> }

\* "enUS" as a little-endian uint32.
MCDefaultLocale == 1398107749
=============================================================================
