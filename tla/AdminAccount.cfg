SPECIFICATION Spec
CONSTANTS
    Names = {admin, other}
    DefaultName = admin
    Passwords = {w1, w2}
    Default = default
    Tokens = {t1, t2, t3}
    Logins = {l1, l2}
    Changes = {c1}
    None = None
SYMMETRY Symmetry
INVARIANTS TypeOK PennedIn PasswordSticks FileIsMemory
