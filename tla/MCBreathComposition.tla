------------------------ MODULE MCBreathComposition ------------------------
EXTENDS BreathComposition

Ask(source, mapping, inverted) ==
    [source |-> source, mapping |-> mapping, inverted |-> inverted]

\* Both sources, a change of mapping and direction within one source, and a
\* combination the package does not list.
Asked == {Ask("Controller", "Volume", FALSE), Ask("Polar", "Volume", FALSE),
          Ask("Polar", "State", TRUE), Ask("Controller", "State", FALSE)}
Unlisted == {<<"Controller", "State">>}

=============================================================================
