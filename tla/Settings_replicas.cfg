SPECIFICATION Spec
CONSTANTS
    a = a
    b = b
    Replicas = {i1, i2}
    Admins = {w1, w2}
    Codes = {a, b}
    Preference <- MCPreference
    Instances <- MCInstances
    Catalogue = {d1, d2}
    Editors = {e1, e2}
INVARIANTS
    KnownIsCurrent
    CurrentIsPublished
PROPERTIES
    SettingsConverge
