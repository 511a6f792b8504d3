SPECIFICATION PSpec
CONSTANTS
  Parts = {"even log", "uneven log", "startup", "menu", "status", "shares", "gaps", "cells"}
  Size = 9
  Hdr = 1
  Lens = {1, 2, 3}
  WrapMod = 8
  MaxMsgs = 10
  Programs = {p, q}
  Led = {q}
  Workspaces = {v, w}
  Names = {one, two, three}
  SpelledAsIs = {TRUE}
  MaxTime = 3
  Items <- Menu
  Lines = {0, 2}
  Room = 4
  MaxText = 4
  Typed <- Keyed
  Sinks = {a, b}
  First = a
  Volumes = {0, 1}
  Default = d
  None = none
  Unknown = unknown
  MaxChanges = 2
  Tiles = {t1, t2, t3}
  Here = here
  Elsewhere = {there}
  Screen <- AScreen
  Deco = 3
  Settings <- SomeSettings
  Amounts <- SomeAmounts
  Targets <- SomeTargets
  GapPixels = {3}
  DockHeights = {0, 4}
  MaxWhole = 60
  MaxCalls = 5
INVARIANTS MarkersTellTheLog DumpIsTheLog OpensWhereStarted ContextsLast MenuFollows SharesAddUp CellsApart
PROPERTIES StatusShowsVolume GapsStay
CHECK_DEADLOCK FALSE
