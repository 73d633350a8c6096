---- MODULE MCD88Cache ----
EXTENDS D88Cache
MCPresent == <<1, 0>>
====
