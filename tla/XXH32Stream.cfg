\* The real block of 16 bytes, the least width it is sound for, and every
\* branch of copy_small: streams long enough for total_len to wrap twice.
SPECIFICATION Spec
CONSTANTS
    Width = 32
    MaxBytes = 70
    Lens = {0, 1, 2, 3, 4, 5, 6, 7, 8, 9, 10, 11, 12, 13, 14, 15, 16, 17, 31, 32, 33, 40}
INVARIANTS
    TypeOK
    DigestOfAll
